---- MODULE Spec2Model ----
(***************************************************************************)
(* Secondary research workflow: SecondaryResearchWorkflow.execute_research *)
(* driving AnthropicResearchClient.conduct_research, with the request      *)
(* validator of utils/data_validation.py.                                  *)
(*                                                                         *)
(* A Python str is a sequence of tokens: request strings are sequences of  *)
(* single characters, template text of the prompts is one token per        *)
(* literal fragment.  A Python value is a record [t, s, n, items] with a   *)
(* type tag t, the characters s of a str, the number n of an int and the   *)
(* elements items of a list.  A dict is a record whose DOMAIN is its keys. *)
(***************************************************************************)
EXTENDS Integers, Sequences, FiniteSets, TLC

(* ---------------------------------------------------------------------- *)
(* Bounds                                                                  *)
(* ---------------------------------------------------------------------- *)
MaxRuns == 2

MaxFailures == 1

\* Whitespace characters put on either side of a string.
MaxPad == 2

\* Characters between the first and the last non-whitespace character of a topic.
MaxCore == 11

\* Elements of an objectives or questions list.
MaxElems == 2

\* Tool calls the agent of one run makes.
MaxToolCalls == 1

\* Events the runners yield before final responses, all runs together.
MaxEvents == 2

\* Calls of tool_usage_monitor on one state.
MaxLog == 12

\* Calls among them that are not the dummy agent's call of dummy_tool at
\* the time of the call before.
MaxOdd == 1

\* Contents of one LlmRequest.
MaxContents == 2

\* Queries of one multi_query_research call.
MaxQueries == 2

(* ---------------------------------------------------------------------- *)
(* Python values                                                           *)
(* ---------------------------------------------------------------------- *)
PyStr(chars) == [t |-> "str", s |-> chars, n |-> 0, items |-> <<>>]

PyInt(k) == [t |-> "int", s |-> <<>>, n |-> k, items |-> <<>>]

PyNone == [t |-> "none", s |-> <<>>, n |-> 0, items |-> <<>>]

PyList(elems) == [t |-> "list", s |-> <<>>, n |-> 0, items |-> elems]

PyDict(rec) == [t |-> "dict", s |-> <<>>, n |-> 0, items |-> <<>>, d |-> rec]

Truthy(v) ==
    CASE v.t = "str" -> v.s # <<>>
      [] v.t = "int" -> v.n # 0
      [] v.t = "list" -> v.items # <<>>
      [] v.t = "dict" -> DOMAIN v.d # {}
      [] OTHER -> FALSE

Whitespace == {" ", "\t", "\n"}

RECURSIVE lstrip(_)
lstrip(chars) ==
    IF chars # <<>> /\ Head(chars) \in Whitespace THEN lstrip(Tail(chars))
    ELSE chars

RECURSIVE rstrip(_)
rstrip(chars) ==
    IF chars # <<>> /\ chars[Len(chars)] \in Whitespace
    THEN rstrip(SubSeq(chars, 1, Len(chars) - 1))
    ELSE chars

strip(chars) == rstrip(lstrip(chars))

replace(chars, old, new) ==
    [i \in 1..Len(chars) |-> IF chars[i] = old THEN new ELSE chars[i]]

RECURSIVE joinStrs(_, _)
joinStrs(sep, strs) ==
    IF strs = <<>> THEN <<>>
    ELSE IF Len(strs) = 1 THEN strs[1]
    ELSE strs[1] \o sep \o joinStrs(sep, Tail(strs))

joinRaises(v) ==
    CASE v.t = "list" -> \E i \in 1..Len(v.items) : v.items[i].t # "str"
      [] v.t = "str" -> FALSE
      [] OTHER -> TRUE

join(sep, v) ==
    IF v.t = "list" THEN joinStrs(sep, [i \in 1..Len(v.items) |-> v.items[i].s])
    ELSE joinStrs(sep, [i \in 1..Len(v.s) |-> <<v.s[i]>>])

get(request, key, default) ==
    IF key \in DOMAIN request THEN request[key] ELSE default

(* ---------------------------------------------------------------------- *)
(* validate_research_request                                               *)
(* ---------------------------------------------------------------------- *)
MinTopicLen == 10

MinObjectiveLen == 15

MinQuestionLen == 10

required_fields == {"topic", "objectives"}

\* Variant: the length taken before stripping.
topicTooShort_untrimmed(topic) == Len(topic.s) < MinTopicLen

topicTooShort(topic) == Len(strip(topic.s)) < MinTopicLen

\* Variant: the length taken before stripping.
objectiveOk_untrimmed(objective) ==
    objective.t = "str" /\ Len(objective.s) >= MinObjectiveLen

objectiveOk(objective) ==
    objective.t = "str" /\ Len(strip(objective.s)) >= MinObjectiveLen

questionOk(question) ==
    question.t = "str" /\ Len(strip(question.s)) >= MinQuestionLen

validate_research_request(request) ==
    IF \E field \in required_fields : field \notin DOMAIN request THEN "False"
    ELSE LET topic == get(request, "topic", PyStr(<<>>))
             objectives == get(request, "objectives", PyList(<<>>))
             questions == get(request, "questions", PyList(<<>>))
         IN  IF ~Truthy(topic) THEN "False"
             ELSE IF topic.t # "str" THEN "raise"
             ELSE IF topicTooShort(topic) THEN "False"
             ELSE IF objectives.t # "list" \/ Len(objectives.items) = 0 THEN "False"
             ELSE IF \E i \in 1..Len(objectives.items) : ~objectiveOk(objectives.items[i])
                  THEN "False"
             ELSE IF ~Truthy(questions) THEN "True"
             ELSE IF questions.t # "list" THEN "False"
             ELSE IF \E i \in 1..Len(questions.items) : ~questionOk(questions.items[i])
                  THEN "False"
             ELSE "True"

(* ---------------------------------------------------------------------- *)
(* validate_agent_output                                                   *)
(* ---------------------------------------------------------------------- *)
\* Python's "key in v": a key of a dict, a substring of a str (a key is one
\* token), an element of a list; TypeError for a value that is no container.
contains(v, key) ==
    CASE v.t = "dict" -> IF key \in DOMAIN v.d THEN "True" ELSE "False"
      [] v.t = "str" -> IF \E i \in 1..Len(v.s) : v.s[i] = key THEN "True" ELSE "False"
      [] v.t = "list" ->
            IF \E i \in 1..Len(v.items) : v.items[i] = PyStr(<<key>>) THEN "True" ELSE "False"
      [] OTHER -> "raise"

\* "all keys in v": the loop over required fields stops at the first
\* missing one and raises where the membership test raises.
hasAll(v, keys) ==
    IF \E k \in keys : contains(v, k) = "raise" THEN "raise"
    ELSE IF \E k \in keys : contains(v, k) = "False" THEN "False"
    ELSE "True"

\* Only a dict can be subscripted with a str key.
subscriptable(v) == v.t = "dict"

validate_research_plan_output(output) ==
    IF "research_plan" \notin DOMAIN output.d THEN "False"
    ELSE hasAll(output.d["research_plan"],
                {"research_id", "topic", "objectives", "methodology"})

validate_orchestration_output(output) ==
    IF "orchestration_results" \notin DOMAIN output.d THEN "False" ELSE "True"

validate_synthesis_output(output) ==
    IF "synthesis_results" \notin DOMAIN output.d THEN "False" ELSE "True"

validate_swot_output(output) ==
    IF "swot_analysis" \notin DOMAIN output.d THEN "False"
    ELSE LET swot == output.d["swot_analysis"]
             has == contains(swot, "swot_matrix")
         IN  IF has # "True" THEN has
             ELSE IF ~subscriptable(swot) THEN "raise"
             ELSE hasAll(swot.d["swot_matrix"],
                         {"strengths", "weaknesses", "opportunities", "threats"})

validate_report_output(output) ==
    IF "final_report" \notin DOMAIN output.d THEN "False" ELSE "True"

\* Variant: an error output passes whether or not it has a message.
validate_agent_output_lax(output, agent_name) ==
    LET has == contains(output, "status")
    IN  IF has # "True" THEN has
        ELSE LET status == output.d["status"]
             IN  IF status \notin {PyStr(<<"success">>), PyStr(<<"error">>)} THEN "False"
                 ELSE "True"

validate_agent_output(output, agent_name) ==
    LET has == contains(output, "status")
    IN  IF has # "True" THEN has
        ELSE IF ~subscriptable(output) THEN "raise"
        ELSE LET status == output.d["status"]
             IN  IF status \notin {PyStr(<<"success">>), PyStr(<<"error">>)} THEN "False"
                 ELSE IF status = PyStr(<<"error">>)
                      THEN (IF "error_message" \in DOMAIN output.d THEN "True" ELSE "False")
                 ELSE CASE agent_name = "research_plan_agent" ->
                               validate_research_plan_output(output)
                        [] agent_name = "orchestration_agent" ->
                               validate_orchestration_output(output)
                        [] agent_name = "synthesis_agent" ->
                               validate_synthesis_output(output)
                        [] agent_name = "swot_analysis_agent" ->
                               validate_swot_output(output)
                        [] agent_name = "report_generation_agent" ->
                               validate_report_output(output)
                        [] OTHER -> "True"

\* The agent whose validation branch belongs to each stage.
StageAgents ==
    <<"research_plan_agent", "orchestration_agent", "synthesis_agent",
      "swot_analysis_agent", "report_generation_agent">>

(* ---------------------------------------------------------------------- *)
(* AnthropicResearchClient.conduct_research: stages and prompts            *)
(* ---------------------------------------------------------------------- *)
NumStages == 5

Stages == 1..NumStages

agent_execution_log ==
    <<"research_planning", "data_collection_strategy", "analysis_synthesis",
      "swot_analysis", "final_report">>

ResultKeys ==
    <<"research_plan", "data_collection_strategy", "analysis_and_synthesis",
      "swot_analysis", "final_report">>

format(v) == IF v.t = "str" THEN v.s ELSE <<"repr(", v.t, ")">>

planning_prompt(topic, objectives, questions) ==
    <<"You are a research analyst. Create a comprehensive research plan for the following topic: Topic: ">>
    \o format(topic) \o <<" Objectives: ">> \o join(<<",", " ">>, objectives)
    \o <<" Questions: ">> \o join(<<",", " ">>, questions)
    \o <<" Format your response as a structured research plan.">>

collection_prompt(topic) ==
    <<"Based on the research plan above, create a detailed data collection strategy for: ">>
    \o format(topic) \o <<" Focus on practical, actionable data collection approaches.">>

analysis_prompt(topic) ==
    <<"Conduct a comprehensive analysis of: ">>
    \o format(topic) \o <<" Provide detailed analysis with supporting reasoning.">>

swot_prompt(topic) ==
    <<"Perform a SWOT analysis for: ">>
    \o format(topic) \o <<" Include specific, actionable insights for each quadrant.">>

report_prompt(topic) ==
    <<"Create a comprehensive research report for: ">>
    \o format(topic) \o <<" Make the report detailed, professional, and actionable.">>

\* Variant: the analysis and SWOT steps issued in the opposite order.
Prompt_swapped(k, request, results) ==
    LET topic == get(request, "topic", PyStr(<<"Unknown Topic">>))
        objectives == get(request, "objectives", PyList(<<>>))
        questions == get(request, "questions", PyList(<<>>))
    IN  CASE k = 1 -> planning_prompt(topic, objectives, questions)
          [] k = 2 -> collection_prompt(topic)
          [] k = 3 -> swot_prompt(topic)
          [] k = 4 -> analysis_prompt(topic)
          [] OTHER -> report_prompt(topic)

\* The prompt of stage k.  results holds the texts the earlier stages
\* returned; the code builds every prompt from the request alone.
Prompt(k, request, results) ==
    LET topic == get(request, "topic", PyStr(<<"Unknown Topic">>))
        objectives == get(request, "objectives", PyList(<<>>))
        questions == get(request, "questions", PyList(<<>>))
    IN  CASE k = 1 -> planning_prompt(topic, objectives, questions)
          [] k = 2 -> collection_prompt(topic)
          [] k = 3 -> analysis_prompt(topic)
          [] k = 4 -> swot_prompt(topic)
          [] OTHER -> report_prompt(topic)

\* Building the planning prompt raises TypeError when a join argument is
\* not an iterable of str.
PromptRaises(request) ==
    \/ joinRaises(get(request, "objectives", PyList(<<>>)))
    \/ joinRaises(get(request, "questions", PyList(<<>>)))

JoinTypeError == <<"can only join an iterable">>

\* Variant: the SWOT text and the final report stored under each other's key.
conduct_research_result_crossed(request, results) ==
    [status |-> "success",
     research_results |->
        [topic |-> get(request, "topic", PyStr(<<"Unknown Topic">>)),
         research_plan |-> PyStr(results[1]),
         data_collection_strategy |-> PyStr(results[2]),
         analysis_and_synthesis |-> PyStr(results[3]),
         swot_analysis |-> PyStr(results[5]),
         final_report |-> PyStr(results[4])],
     metadata |->
        [api_used |-> "anthropic_claude",
         model |-> "claude-3-5-sonnet-20240620",
         research_steps_completed |-> NumStages]]

conduct_research_result(request, results) ==
    [status |-> "success",
     research_results |->
        [topic |-> get(request, "topic", PyStr(<<"Unknown Topic">>)),
         research_plan |-> PyStr(results[1]),
         data_collection_strategy |-> PyStr(results[2]),
         analysis_and_synthesis |-> PyStr(results[3]),
         swot_analysis |-> PyStr(results[4]),
         final_report |-> PyStr(results[5])],
     metadata |->
        [api_used |-> "anthropic_claude",
         model |-> "claude-3-5-sonnet-20240620",
         research_steps_completed |-> NumStages]]

(* ---------------------------------------------------------------------- *)
(* AnthropicResearchClient._call_claude and the messages API behind it     *)
(* ---------------------------------------------------------------------- *)
\* Deterministic stand-ins for client.messages.create: the text is a
\* function of the prompt.
Stubs == {"stage_output", "fixed_text"}

StageOfPrompt(prompt) ==
    CASE prompt[1] = planning_prompt(PyStr(<<>>), PyList(<<>>), PyList(<<>>))[1] -> 1
      [] prompt[1] = collection_prompt(PyStr(<<>>))[1] -> 2
      [] prompt[1] = analysis_prompt(PyStr(<<>>))[1] -> 3
      [] prompt[1] = swot_prompt(PyStr(<<>>))[1] -> 4
      [] OTHER -> 5

StubText(s, prompt) ==
    CASE s = "stage_output" -> <<agent_execution_log[StageOfPrompt(prompt)], " output">>
      [] OTHER -> <<"Research completed successfully">>

ApiErrors == {<<"rate limit exceeded">>}

ExecutorErrors == {<<"cannot schedule new futures after shutdown">>}

\* _sync_call turns an exception of messages.create into its return value.
sync_call_error(e) == <<"Error calling Claude API: ">> \o e

(* ---------------------------------------------------------------------- *)
(* SecondaryResearchWorkflow.execute_research: the returned dicts          *)
(* ---------------------------------------------------------------------- *)
InvalidRequestError == <<"Invalid research request format">>

\* Variant: the topic used as it is.
session_id_verbatim(request) ==
    <<"research_">> \o format(get(request, "topic", PyStr(<<"default">>)))

session_id(request) ==
    <<"research_">> \o replace(format(get(request, "topic", PyStr(<<"default">>))), " ", "_")

invalid_result == [status |-> "error", error |-> InvalidRequestError]

\* Variant: a fixed text in the place of str(e).
except_result_generic(request, e) ==
    [status |-> "error", error |-> <<"Research failed">>, session_id |-> session_id(request)]

except_result(request, e) ==
    [status |-> "error", error |-> e, session_id |-> session_id(request)]

\* Variant: the clock reading stored with the research results instead of
\* the session state.
workflow_result_stamped(request, research_results, time) ==
    IF research_results.status = "success"
    THEN [status |-> "complete",
          research_results |->
             [k \in DOMAIN research_results.research_results \cup {"timestamp"} |->
                 IF k = "timestamp" THEN PyInt(time)
                 ELSE research_results.research_results[k]],
          metadata |-> research_results.metadata,
          session_state |->
             [research_request |-> request,
              workflow_stage |-> "completed",
              agent_execution_log |-> agent_execution_log],
          session_id |-> session_id(request)]
    ELSE [status |-> "error",
          error |-> get(research_results, "error", <<"Research failed">>),
          session_id |-> session_id(request)]

workflow_result(request, research_results, time) ==
    IF research_results.status = "success"
    THEN [status |-> "complete",
          research_results |-> research_results.research_results,
          metadata |-> research_results.metadata,
          session_state |->
             [research_request |-> request,
              workflow_stage |-> "completed",
              timestamp |-> time,
              agent_execution_log |-> agent_execution_log],
          session_id |-> session_id(request)]
    ELSE [status |-> "error",
          error |-> get(research_results, "error", <<"Research failed">>),
          session_id |-> session_id(request)]

(* ---------------------------------------------------------------------- *)
(* Requests passed to execute_research                                     *)
(* ---------------------------------------------------------------------- *)
TopicAIMarkets == <<"A", "I", " ", "M", "a", "r", "k", "e", "t", "s">>

TopicTooShort == <<"T", "o", "o", " ", "s", "h", "o", "r", "t">>

ObjectiveAnalyze ==
    <<"A", "n", "a", "l", "y", "z", "e", " ", "m", "a", "r", "k", "e", "t", "s">>

ObjectiveIdentify ==
    <<"I", "d", "e", "n", "t", "i", "f", "y", " ", "r", "i", "v", "a", "l", "s">>

QuestionWhat == <<"W", "h", "a", "t", " ", "i", "s", " ", "i", "t">>

Requests ==
    { [topic |-> PyStr(TopicAIMarkets),
       objectives |-> PyList(<<PyStr(ObjectiveAnalyze), PyStr(ObjectiveIdentify)>>),
       questions |-> PyList(<<PyStr(QuestionWhat)>>)],
      [topic |-> PyStr(TopicAIMarkets),
       objectives |-> PyList(<<PyStr(ObjectiveAnalyze)>>),
       questions |-> PyNone],
      [objectives |-> PyList(<<PyStr(ObjectiveAnalyze)>>)],
      [topic |-> PyStr(TopicAIMarkets)],
      [topic |-> PyStr(TopicTooShort), objectives |-> PyList(<<>>)],
      [topic |-> PyStr(TopicAIMarkets), objectives |-> PyList(<<>>)],
      [topic |-> PyInt(12345),
       objectives |-> PyList(<<PyStr(ObjectiveAnalyze)>>)] }

(* ---------------------------------------------------------------------- *)
(* State                                                                   *)
(* ---------------------------------------------------------------------- *)
Runs == 1..MaxRuns

NoRequest == [none |-> TRUE]

NoResult == [none |-> TRUE]

VARIABLES
    pc,         \* pc[r]: "idle", "awaiting" (suspended in _call_claude), "returned", "raised"
    req,        \* req[r]: the research_request of run r
    calls,      \* calls[r]: the prompts run r has passed to _call_claude, in order
    outs,       \* outs[r]: planning_result, collection_result, ... as far as returned
    apiFailed,  \* apiFailed[r]: the stages whose messages.create raised
    faultAt,    \* faultAt[r]: the stage whose run_in_executor raised, 0 if none
    result,     \* result[r]: the dict execute_research returned
    stub,       \* the behaviour of messages.create when it answers
    failures,   \* number of failures the collaborators have produced
    now         \* the event loop's clock: it is read by a completing run and
                \* has advanced by the next reading

\* A validator called on its own.
VARIABLES
    vin,        \* the argument: a request, or an agent output with an agent name
    vout        \* what the call returned: "True", "False", "raise"; "pending" before

\* The session-based workflow's InMemorySessionService.
VARIABLES
    sessions,   \* sessions[id]: the state of the session stored under id
    events      \* events[r]: the events run r has taken from runner.run_async

workflowVars == <<pc, req, calls, outs, apiFailed, faultAt, result, stub, failures, now>>

validatorVars == <<vin, vout>>

sessionVars == <<sessions, events>>

vars == <<workflowVars, validatorVars, sessionVars>>

NoSessions == <<>>

NoEvents == [r \in Runs |-> <<>>]

\* No validator call of its own is under way.
ValidatorUnused == vin = NoRequest /\ vout = "pending"

Init ==
    /\ ValidatorUnused
    /\ sessions = NoSessions
    /\ events = NoEvents
    /\ pc = [r \in Runs |-> "idle"]
    /\ req = [r \in Runs |-> NoRequest]
    /\ calls = [r \in Runs |-> <<>>]
    /\ outs = [r \in Runs |-> <<>>]
    /\ apiFailed = [r \in Runs |-> {}]
    /\ faultAt = [r \in Runs |-> 0]
    /\ result = [r \in Runs |-> NoResult]
    /\ stub \in Stubs
    /\ failures = 0
    /\ now = 0

(* ---------------------------------------------------------------------- *)
(* execute_research, from its call to the first await                      *)
(* ---------------------------------------------------------------------- *)
\* Variant: the validator's verdict not acted on.
entry_ungated(request) ==
    LET valid == validate_research_request(request)
    IN  IF valid = "raise" THEN "raise"
        ELSE IF PromptRaises(request) THEN "except"
        ELSE "await"

\* What the synchronous prefix of execute_research ends in: the validator
\* raises out of the coroutine, the request is rejected, conduct_research
\* raises inside the try block, or the first _call_claude is awaited.
entry(request) ==
    LET valid == validate_research_request(request)
    IN  IF valid = "raise" THEN "raise"
        ELSE IF valid = "False" THEN "invalid"
        ELSE IF PromptRaises(request) THEN "except"
        ELSE "await"

\* Run r is the r-th call of execute_research.
ExecuteResearch(r, request) ==
    /\ pc[r] = "idle"
    /\ \A q \in Runs : q < r => pc[q] # "idle"
    /\ req' = [req EXCEPT ![r] = request]
    /\ LET e == entry(request)
       IN  /\ pc' = [pc EXCEPT ![r] =
                        CASE e = "raise" -> "raised"
                          [] e = "await" -> "awaiting"
                          [] OTHER -> "returned"]
           /\ result' = [result EXCEPT ![r] =
                        CASE e = "invalid" -> invalid_result
                          [] e = "except" -> except_result(request, JoinTypeError)
                          [] OTHER -> NoResult]
           /\ calls' = [calls EXCEPT ![r] =
                        IF e = "await" THEN <<Prompt(1, request, <<>>)>> ELSE <<>>]
    /\ UNCHANGED <<outs, apiFailed, faultAt, stub, failures, now>>
    /\ UNCHANGED <<validatorVars, sessionVars>>

(* ---------------------------------------------------------------------- *)
(* conduct_research resumed by the return of _call_claude                  *)
(* ---------------------------------------------------------------------- *)
\* The awaited call returned text: the coroutine stores it and either
\* awaits the next stage's call or returns through execute_research.
\* Variant: one variable for the result of every stage.
Resume_rewriting(r, text) ==
    LET results == [k \in 1..(Len(outs[r]) + 1) |-> text]
    IN  /\ outs' = [outs EXCEPT ![r] = results]
        /\ IF Len(results) < NumStages
           THEN /\ calls' = [calls EXCEPT ![r] =
                                Append(@, Prompt(Len(results) + 1, req[r], results))]
                /\ UNCHANGED <<pc, result, now>>
           ELSE /\ pc' = [pc EXCEPT ![r] = "returned"]
                /\ result' = [result EXCEPT ![r] =
                                workflow_result(req[r],
                                    conduct_research_result(req[r], results), now)]
                /\ now' = now + 1
                /\ UNCHANGED calls
        /\ UNCHANGED <<req, faultAt, stub>>

Resume(r, text) ==
    LET results == Append(outs[r], text)
    IN  /\ outs' = [outs EXCEPT ![r] = results]
        /\ IF Len(results) < NumStages
           THEN /\ calls' = [calls EXCEPT ![r] =
                                Append(@, Prompt(Len(results) + 1, req[r], results))]
                /\ UNCHANGED <<pc, result, now>>
           ELSE /\ pc' = [pc EXCEPT ![r] = "returned"]
                /\ result' = [result EXCEPT ![r] =
                                workflow_result(req[r],
                                    conduct_research_result(req[r], results), now)]
                /\ now' = now + 1
                /\ UNCHANGED calls
        /\ UNCHANGED <<req, faultAt, stub>>

\* Variant: messages.create called on the event loop's thread, so that a
\* call answers only when no earlier run's call is pending.
CallReturns_blocking(r) ==
    /\ pc[r] = "awaiting"
    /\ \A q \in Runs : q < r => pc[q] # "awaiting"
    /\ Resume(r, StubText(stub, calls[r][Len(calls[r])]))
    /\ UNCHANGED <<apiFailed, failures>>
    /\ UNCHANGED <<validatorVars, sessionVars>>

\* messages.create answered.
CallReturns(r) ==
    /\ pc[r] = "awaiting"
    /\ Resume(r, StubText(stub, calls[r][Len(calls[r])]))
    /\ UNCHANGED <<apiFailed, failures>>
    /\ UNCHANGED <<validatorVars, sessionVars>>

\* messages.create raised: _sync_call returns the error text as the result.
CallApiError(r, e) ==
    /\ pc[r] = "awaiting"
    /\ failures < MaxFailures
    /\ failures' = failures + 1
    /\ apiFailed' = [apiFailed EXCEPT ![r] = @ \cup {Len(calls[r])}]
    /\ Resume(r, sync_call_error(e))
    /\ UNCHANGED <<validatorVars, sessionVars>>

\* run_in_executor raised: the exception leaves _call_claude and
\* conduct_research and is caught by execute_research.
ExecutorFault(r, e) ==
    /\ pc[r] = "awaiting"
    /\ failures < MaxFailures
    /\ failures' = failures + 1
    /\ faultAt' = [faultAt EXCEPT ![r] = Len(calls[r])]
    /\ pc' = [pc EXCEPT ![r] = "returned"]
    /\ result' = [result EXCEPT ![r] = except_result(req[r], e)]
    /\ UNCHANGED <<req, calls, outs, apiFailed, stub, now>>
    /\ UNCHANGED <<validatorVars, sessionVars>>

Next ==
    \/ \E r \in Runs, request \in Requests : ExecuteResearch(r, request)
    \/ \E r \in Runs : CallReturns(r)
    \/ \E r \in Runs, e \in ApiErrors : CallApiError(r, e)
    \/ \E r \in Runs, e \in ExecutorErrors : ExecutorFault(r, e)

Spec == Init /\ [][Next]_vars

(* ---------------------------------------------------------------------- *)
(* Vocabulary of the properties                                            *)
(* ---------------------------------------------------------------------- *)
\* text occurs in whole as a contiguous part of within.
IsSubstring(text, within) ==
    \E i \in 0..(Len(within) - Len(text)) :
        \A j \in 1..Len(text) : within[i + j] = text[j]

\* A valid request: accepted by the validator, with questions the list the
\* validator's own diagnostic ("Questions must be a list") asks for.
ValidRequest(request) ==
    /\ validate_research_request(request) = "True"
    /\ get(request, "questions", PyList(<<>>)).t = "list"

Started(r) == pc[r] # "idle"

Returned(r) == pc[r] = "returned"

\* The run met no failing collaborator.
Undisturbed(r) == apiFailed[r] = {} /\ faultAt[r] = 0

\* The first stage whose generation call failed, 0 if none did.
FailedStage(r) ==
    LET failed == apiFailed[r] \cup (IF faultAt[r] = 0 THEN {} ELSE {faultAt[r]})
    IN  IF failed = {} THEN 0
        ELSE CHOOSE k \in failed : \A j \in failed : k <= j

(* ---------------------------------------------------------------------- *)
(* Properties                                                              *)
(* ---------------------------------------------------------------------- *)
\* C1: a run whose request validate_research_request rejects has returned
\* {status: "error", error: "Invalid research request format"} and has made
\* no generation call.
C1_RejectedRequestFailsWithoutCall ==
    \A r \in Runs :
        (Started(r) /\ validate_research_request(req[r]) = "False") =>
            /\ Returned(r)
            /\ result[r].status = "error"
            /\ result[r].error = <<"Invalid research request format">>
            /\ calls[r] = <<>>

C1_Witness ==
    /\ \E r \in Runs : Returned(r) /\ DOMAIN req[r] = {"objectives"}
    /\ \E r \in Runs :
          /\ Returned(r)
          /\ DOMAIN req[r] = {"topic", "objectives"}
          /\ req[r]["objectives"] = PyList(<<>>)
          /\ result[r].status = "error"

\* C2: execute_research never raises to its caller, and what it returns
\* has status "complete" or "error".
C2_NeverRaises ==
    \A r \in Runs :
        /\ pc[r] # "raised"
        /\ Returned(r) => result[r].status \in {"complete", "error"}

\* C3: the generation calls of a run are the stage prompts in stage order,
\* none repeated; a call is issued only when every earlier call has
\* returned; a run with a valid request that no executor fault cut short
\* has made exactly one call per stage when it returns.
C3_OneCallPerStageInOrder ==
    \A r \in Runs :
        /\ Len(calls[r]) <= NumStages
        /\ \A k \in 1..Len(calls[r]) : StageOfPrompt(calls[r][k]) = k
        /\ Len(outs[r]) <= Len(calls[r])
        /\ Len(calls[r]) <= Len(outs[r]) + 1
        /\ pc[r] = "awaiting" => Len(calls[r]) = Len(outs[r]) + 1
        /\ (pc[r] # "awaiting" /\ faultAt[r] = 0) => Len(calls[r]) = Len(outs[r])
        /\ (Started(r) /\ ValidRequest(req[r]) /\ faultAt[r] = 0 /\ pc[r] # "awaiting") =>
              /\ Returned(r)
              /\ Len(calls[r]) = NumStages
              /\ Len(outs[r]) = NumStages

C3_Witness ==
    \E r \in Runs :
        /\ Returned(r)
        /\ ValidRequest(req[r])
        /\ apiFailed[r] # {}
        /\ Len(calls[r]) = NumStages
        /\ result[r].status = "complete"

\* C4: the prompt of every stage after the first textually contains the
\* output the stage before it returned.
C4_PromptContainsPreviousOutput ==
    \A r \in Runs :
        \A k \in 2..Len(calls[r]) : IsSubstring(outs[r][k - 1], calls[r][k])

\* C5: a run in which a generation call failed returns status "error" with
\* an error message containing the failure reason.
C5_GenerationFailureIsError ==
    \A r \in Runs :
        (Returned(r) /\ apiFailed[r] # {}) =>
            /\ result[r].status = "error"
            /\ \E e \in ApiErrors : IsSubstring(e, result[r].error)

\* C6: after the generation call of stage k failed, the run makes no
\* generation call for a later stage.
C6_NoCallAfterFailedStage ==
    \A r \in Runs :
        FailedStage(r) # 0 => Len(calls[r]) <= FailedStage(r)

\* C7: the result of a run that failed at stage k carries a session_state
\* holding the outputs of the stages before k and of no other stage.
C7_FailedRunKeepsPartialState ==
    \A r \in Runs :
        (Returned(r) /\ FailedStage(r) # 0) =>
            /\ "session_state" \in DOMAIN result[r]
            /\ \A k \in Stages :
                  IF k < FailedStage(r)
                  THEN /\ ResultKeys[k] \in DOMAIN result[r].session_state
                       /\ result[r].session_state[ResultKeys[k]] = PyStr(outs[r][k])
                  ELSE ResultKeys[k] \notin DOMAIN result[r].session_state

\* C8: every stage output held in the accumulated results has been accepted
\* by validate_agent_output for the agent of its stage.
C8_CommittedOutputsAccepted ==
    \A r \in Runs :
        \A k \in 1..Len(outs[r]) :
            validate_agent_output(PyStr(outs[r][k]), StageAgents[k]) = "True"

\* C9 as stated: with a valid request and a stub that answers every call,
\* the run is complete and the keys of research_results are exactly the
\* five stage keys, each holding the stub's text for its stage's prompt.
C9_ExactlyFiveStageKeys ==
    \A r \in Runs :
        (Returned(r) /\ ValidRequest(req[r]) /\ Undisturbed(r)) =>
            /\ result[r].status = "complete"
            /\ DOMAIN result[r].research_results = {ResultKeys[k] : k \in Stages}
            /\ \A k \in Stages :
                  result[r].research_results[ResultKeys[k]] =
                      PyStr(StubText(stub, Prompt(k, req[r], <<>>)))

\* C9 amended: the keys of research_results are the five stage keys and
\* "topic"; each stage key holds the stub's text for its stage's prompt and
\* "topic" holds the request's topic.
C9_FiveStageKeysAndTopic ==
    \A r \in Runs :
        (Returned(r) /\ ValidRequest(req[r]) /\ Undisturbed(r)) =>
            /\ result[r].status = "complete"
            /\ DOMAIN result[r].research_results =
                  {ResultKeys[k] : k \in Stages} \cup {"topic"}
            /\ result[r].research_results["topic"] = req[r]["topic"]
            /\ \A k \in Stages :
                  result[r].research_results[ResultKeys[k]] =
                      PyStr(StubText(stub, Prompt(k, req[r], <<>>)))

C9_Witness ==
    \E r \in Runs :
        /\ Returned(r)
        /\ Undisturbed(r)
        /\ stub = "stage_output"
        /\ "questions" \in DOMAIN req[r]
        /\ result[r].status = "complete"
        /\ result[r].research_results["final_report"] = PyStr(<<"final_report", " output">>)

\* C10: two runs with the same valid request against the same stub return
\* identical research_results; their results differ in nothing but the
\* timestamp of the session state.
C10_SameRequestSameResults ==
    \A r1, r2 \in Runs :
        (/\ Returned(r1) /\ Returned(r2)
         /\ req[r1] = req[r2]
         /\ ValidRequest(req[r1])
         /\ Undisturbed(r1) /\ Undisturbed(r2)) =>
            /\ result[r1].research_results = result[r2].research_results
            /\ [result[r1] EXCEPT !.session_state.timestamp = 0] =
                  [result[r2] EXCEPT !.session_state.timestamp = 0]

C10_Witness ==
    \E r1, r2 \in Runs :
        /\ r1 # r2
        /\ Returned(r1) /\ Returned(r2)
        /\ req[r1] = req[r2]
        /\ result[r1].status = "complete" /\ result[r2].status = "complete"
        /\ result[r1].session_state.timestamp # result[r2].session_state.timestamp

\* C11: a session id in a result is "research_" followed by the request's
\* topic, character by character, with "_" in the place of every space.
C11_SessionIdFromTopic ==
    \A r \in Runs :
        (Returned(r) /\ "session_id" \in DOMAIN result[r]) =>
            LET sid == result[r].session_id
                topic == req[r]["topic"].s
            IN  /\ Len(sid) = Len(topic) + 1
                /\ sid[1] = "research_"
                /\ \A i \in 1..Len(topic) :
                      sid[i + 1] = (IF topic[i] = " " THEN "_" ELSE topic[i])

C11_Witness ==
    \E r1, r2 \in Runs :
        /\ Returned(r1) /\ result[r1].status = "complete"
        /\ Returned(r2) /\ result[r2].status = "error"
        /\ "session_id" \in DOMAIN result[r2]
        /\ \E i \in 1..Len(req[r1]["topic"].s) : req[r1]["topic"].s[i] = " "
        /\ result[r1].session_id = result[r2].session_id
        /\ \E i \in 1..Len(result[r2].session_id) : result[r2].session_id[i] = "_"

\* C12: every returned result with status "error" has an error message and
\* a session id.
C12_ErrorResultHasMessageAndSessionId ==
    \A r \in Runs :
        (Returned(r) /\ result[r].status = "error") =>
            /\ "error" \in DOMAIN result[r]
            /\ "session_id" \in DOMAIN result[r]

(* ---------------------------------------------------------------------- *)
(* The validators called on their own                                      *)
(* ---------------------------------------------------------------------- *)
Pad(c, n) == [i \in 1..n |-> c]

\* n characters, the first and the last no whitespace; inner puts a space
\* in the second place.
Core(n, inner) == [i \in 1..n |-> IF inner /\ i = 2 /\ n >= 3 THEN " " ELSE "x"]

Padded(c, l, n, inner, r) == Pad(c, l) \o Core(n, inner) \o Pad(c, r)

GoodObjectives == PyList(<<PyStr(ObjectiveAnalyze), PyStr(ObjectiveIdentify)>>)

GoodQuestions == PyList(<<PyStr(QuestionWhat)>>)

\* Lists of 1..MaxElems elements of a set.
ListsOf(elems) ==
    UNION { { PyList(items) : items \in [1..k -> elems] } : k \in 1..MaxElems }

\* Requests that differ from a valid one in the topic only.
TopicCases ==
    LET topics == { Padded(c, l, n, inner, r) :
                        c \in {" ", "\t"}, l \in 0..MaxPad, n \in 0..MaxCore,
                        inner \in BOOLEAN, r \in 0..MaxPad }
    IN  { [topic |-> PyStr(t), objectives |-> GoodObjectives] : t \in topics }
        \cup { [topic |-> PyStr(t), objectives |-> GoodObjectives,
                questions |-> GoodQuestions] : t \in topics }

ObjectiveValues ==
    { PyStr(Padded(" ", l, n, TRUE, r)) :
          l \in 0..1, n \in (MinObjectiveLen - 1)..(MinObjectiveLen + 1), r \in 0..1 }
    \cup {PyInt(5), PyNone, PyList(<<>>)}

\* Requests that differ from a valid one in the elements of objectives only.
ObjectiveCases ==
    { [topic |-> PyStr(TopicAIMarkets), objectives |-> o] : o \in ListsOf(ObjectiveValues) }

QuestionValues ==
    { PyStr(Padded(" ", l, n, TRUE, 0)) :
          l \in 0..1, n \in (MinQuestionLen - 1)..MinQuestionLen }
    \cup {PyInt(3), PyNone}

\* Requests that differ from a valid one in the value of questions only.
QuestionCases ==
    { [topic |-> PyStr(TopicAIMarkets), objectives |-> GoodObjectives, questions |-> q] :
          q \in ListsOf(QuestionValues)
                \cup {PyList(<<>>), PyNone, PyInt(0), PyInt(7), PyStr(<<>>),
                      PyStr(QuestionWhat), PyDict(<<>>)} }

RequestCases == TopicCases \cup ObjectiveCases \cup QuestionCases

WorkflowUnused ==
    /\ pc = [r \in Runs |-> "idle"]
    /\ req = [r \in Runs |-> NoRequest]
    /\ calls = [r \in Runs |-> <<>>]
    /\ outs = [r \in Runs |-> <<>>]
    /\ apiFailed = [r \in Runs |-> {}]
    /\ faultAt = [r \in Runs |-> 0]
    /\ result = [r \in Runs |-> NoResult]
    /\ stub = "stage_output"
    /\ failures = 0
    /\ now = 0
    /\ sessions = NoSessions
    /\ events = NoEvents

RequestInit ==
    /\ WorkflowUnused
    /\ vin \in RequestCases
    /\ vout = "pending"

ValidateRequest ==
    /\ vout = "pending"
    /\ vout' = validate_research_request(vin)
    /\ UNCHANGED <<vin, workflowVars, sessionVars>>

RequestNext == ValidateRequest

RequestSpec == RequestInit /\ [][RequestNext]_vars

(* ---------------------------------------------------------------------- *)
(* Claims about validate_research_request                                  *)
(* ---------------------------------------------------------------------- *)
\* The number of characters from the first to the last character that is
\* no whitespace.
TrimmedLen(chars) ==
    LET solid == {i \in 1..Len(chars) : chars[i] \notin Whitespace}
    IN  IF solid = {} THEN 0
        ELSE (CHOOSE i \in solid : \A j \in solid : j <= i)
             - (CHOOSE i \in solid : \A j \in solid : i <= j) + 1

\* The same characters with whitespace added on both sides.
IsPaddingOf(padded, chars) ==
    \E l \in 0..Len(padded) :
        /\ l + Len(chars) <= Len(padded)
        /\ SubSeq(padded, l + 1, l + Len(chars)) = chars
        /\ \A i \in (1..l) \cup ((l + Len(chars) + 1)..Len(padded)) :
              padded[i] \in Whitespace

Validated == vout # "pending"

\* C13: with objectives and questions valid, a topic of trimmed length 10
\* (or more) is accepted and one of trimmed length 9 (or less) is rejected,
\* and no padding of a rejected topic with whitespace is accepted.
C13_TopicBoundary ==
    (Validated /\ vin \in TopicCases) =>
        LET n == TrimmedLen(vin.topic.s)
        IN  /\ n >= 10 => vout = "True"
            /\ n <= 9 => vout = "False"
            /\ vout = "False" =>
                  \A other \in TopicCases :
                      (/\ DOMAIN other = DOMAIN vin
                       /\ IsPaddingOf(other.topic.s, vin.topic.s))
                          => validate_research_request(other) = "False"

C13_Witness ==
    /\ Validated /\ vin \in TopicCases
    /\ TrimmedLen(vin.topic.s) = 9
    /\ Len(vin.topic.s) = 9 + 2 * MaxPad
    /\ vout = "False"

\* C14: with topic and questions valid and a non-empty list of objectives,
\* the request is accepted when every objective is a string of trimmed
\* length 15 or more, and rejected when an objective at any position is
\* not a string or has trimmed length 14 or less.
C14_ObjectiveBoundary ==
    (Validated /\ vin \in ObjectiveCases) =>
        LET items == vin.objectives.items
            ok(i) == items[i].t = "str" /\ TrimmedLen(items[i].s) >= 15
        IN  /\ (\A i \in 1..Len(items) : ok(i)) => vout = "True"
            /\ (\E i \in 1..Len(items) : ~ok(i)) => vout = "False"

C14_Witness ==
    /\ Validated /\ vin \in ObjectiveCases
    /\ LET items == vin.objectives.items
       IN  /\ Len(items) = 2
           /\ items[1].t = "str" /\ TrimmedLen(items[1].s) = 15
           /\ items[2].t = "str" /\ TrimmedLen(items[2].s) = 14 /\ Len(items[2].s) >= 15
    /\ vout = "False"

\* C15: a request whose questions key is present is rejected when the value
\* is not a list, whatever the value, and when an element of the list is
\* not a string of trimmed length 10 or more.
C15_QuestionsRule ==
    (Validated /\ vin \in QuestionCases) =>
        LET q == vin.questions
        IN  /\ q.t # "list" => vout = "False"
            /\ (q.t = "list" /\ \E i \in 1..Len(q.items) :
                    ~(q.items[i].t = "str" /\ TrimmedLen(q.items[i].s) >= 10))
                  => vout = "False"

(* ---------------------------------------------------------------------- *)
(* validate_agent_output called on its own                                 *)
(* ---------------------------------------------------------------------- *)
Merge(f, g) == [k \in DOMAIN f \cup DOMAIN g |-> IF k \in DOMAIN f THEN f[k] ELSE g[k]]

Drop(f, key) == [k \in DOMAIN f \ {key} |-> f[k]]

Text == PyStr(<<"x">>)

AgentNames == {StageAgents[k] : k \in Stages} \cup {"unknown_agent"}

\* The status and error_message part of an output.
StatusParts ==
    LET statuses == { <<>> } \cup { [status |-> v] :
                        v \in {PyStr(<<"success">>), PyStr(<<"error">>),
                               PyStr(<<"Success">>), PyStr(<<"report_generated">>), PyNone} }
    IN  statuses \cup { Merge(st, [error_message |-> Text]) : st \in statuses }

PlanKeys == {"research_id", "topic", "objectives", "methodology"}

GoodPlan == [k \in PlanKeys |-> Text]

Quadrants == {"strengths", "weaknesses", "opportunities", "threats"}

GoodMatrix == [k \in Quadrants |-> PyList(<<Text>>)]

\* The keys of the final report built by generate_comprehensive_report_tool
\* for metadata, executive summary, findings and recommendations.
ReportKeys ==
    {"report_metadata", "executive_summary", "key_findings", "strategic_recommendations"}

GoodReport == [k \in ReportKeys |-> PyDict([detail |-> Text])]

\* The agent-specific part of an output.
PayloadParts ==
    { <<>> }
    \cup { [research_plan |-> v] :
             v \in {PyDict(GoodPlan), PyNone, PyInt(1), PyStr(<<"topic">>),
                    PyList(<<PyStr(<<"topic">>)>>)}
                   \cup {PyDict(Drop(GoodPlan, k)) : k \in PlanKeys} }
    \cup { [orchestration_results |-> PyDict([sources |-> Text])] }
    \cup { [synthesis_results |-> PyDict([findings |-> Text])] }
    \cup { [swot_analysis |-> v] :
             v \in {PyDict([swot_matrix |-> PyDict(GoodMatrix)]),
                    PyDict([summary |-> Text]),
                    PyDict([swot_matrix |-> PyNone]),
                    PyStr(<<"swot_matrix">>), PyStr(<<"x">>),
                    PyList(<<PyStr(<<"swot_matrix">>)>>), PyNone}
                   \cup {PyDict([swot_matrix |-> PyDict(Drop(GoodMatrix, k))]) :
                            k \in Quadrants} }
    \cup { [final_report |-> v] :
             v \in {PyDict(GoodReport), PyDict(<<>>), PyNone, Text}
                   \cup {PyDict(Drop(GoodReport, k)) : k \in ReportKeys} }

OutputCases ==
    { [output |-> PyDict(Merge(st, pl)), agent_name |-> a] :
          st \in StatusParts, pl \in PayloadParts, a \in AgentNames }

OutputInit ==
    /\ WorkflowUnused
    /\ vin \in OutputCases
    /\ vout = "pending"

ValidateAgentOutput ==
    /\ vout = "pending"
    /\ vout' = validate_agent_output(vin.output, vin.agent_name)
    /\ UNCHANGED <<vin, workflowVars, sessionVars>>

OutputNext == ValidateAgentOutput

OutputSpec == OutputInit /\ [][OutputNext]_vars

(* ---------------------------------------------------------------------- *)
(* Claims about validate_agent_output                                      *)
(* ---------------------------------------------------------------------- *)
HasStatus(o, status) == "status" \in DOMAIN o /\ o["status"] = PyStr(<<status>>)

\* C16: for every agent name, an output without status, or with a status
\* other than "success" and "error", gets False; an output with status
\* "error" gets True when it has an error_message and False when it has
\* none, whatever the rest of the output is.
C16_GenericRule ==
    Validated =>
        LET o == vin.output.d
        IN  /\ (~HasStatus(o, "success") /\ ~HasStatus(o, "error")) => vout = "False"
            /\ HasStatus(o, "error") =>
                  vout = (IF "error_message" \in DOMAIN o THEN "True" ELSE "False")

C16_Witness ==
    /\ Validated
    /\ vin.agent_name = "research_plan_agent"
    /\ HasStatus(vin.output.d, "error")
    /\ "error_message" \in DOMAIN vin.output.d
    /\ "research_plan" \in DOMAIN vin.output.d
    /\ vin.output.d["research_plan"] = PyNone
    /\ vout = "True"

\* C17: a "success" output of the final-report stage gets True only if its
\* final report has each of the keys for metadata, executive summary,
\* findings and recommendations.
C17_ReportNestedKeys ==
    (/\ Validated
     /\ vin.agent_name = "report_generation_agent"
     /\ HasStatus(vin.output.d, "success")
     /\ vout = "True")
        => /\ "final_report" \in DOMAIN vin.output.d
           /\ vin.output.d["final_report"].t = "dict"
           /\ ReportKeys \subseteq DOMAIN vin.output.d["final_report"].d

\* C18: validate_agent_output returns True or False for every output and
\* agent name; it never raises.
C18_NeverRaises == Validated => vout \in {"True", "False"}

(* ---------------------------------------------------------------------- *)
(* The session-based workflow (research_workflow_googlesdk_copy.py)        *)
(*                                                                         *)
(* The variables of the workflow are used for its runs: pc[r] is           *)
(* "awaiting" while run r is suspended in runner.run_async, calls[r] is    *)
(* the message passed to the runner and outs[r] what the tools called by   *)
(* the run's agent returned.                                               *)
(* ---------------------------------------------------------------------- *)
\* Variant: the list taken from its end.
bullets_reversed(v) ==
    LET n == IF v.t = "list" THEN Len(v.items) ELSE Len(v.s)
        elems == IF v.t = "list" THEN [i \in 1..n |-> format(v.items[n + 1 - i])]
                 ELSE [i \in 1..n |-> <<v.s[n + 1 - i]>>]
    IN  joinStrs(<<"\n">>, [i \in 1..n |-> <<"- ">> \o elems[i]])

\* chr(10).join([f'- {x}' for x in v])
bullets(v) ==
    LET elems == IF v.t = "list" THEN [i \in 1..Len(v.items) |-> format(v.items[i])]
                 ELSE [i \in 1..Len(v.s) |-> <<v.s[i]>>]
    IN  joinStrs(<<"\n">>, [i \in 1..Len(elems) |-> <<"- ">> \o elems[i]])

\* Iterating over None or an int raises TypeError.
IterRaises(v) == v.t \in {"none", "int"}

build_research_query(request) ==
    <<"Conduct comprehensive secondary research on: ">>
        \o format(get(request, "topic", PyStr(<<"Unknown Topic">>)))
        \o <<"Research Objectives:">>
        \o bullets(get(request, "objectives", PyList(<<>>)))
        \o <<"Specific Research Questions:">>
        \o bullets(get(request, "questions", PyList(<<>>)))
        \o <<"Please execute the complete research workflow">>

build_research_query_raises(request) ==
    \/ IterRaises(get(request, "objectives", PyList(<<>>)))
    \/ IterRaises(get(request, "questions", PyList(<<>>)))

\* The state create_session is called with.
initial_state(request, time) ==
    [research_request |-> request,
     workflow_stage |-> "initiated",
     timestamp |-> time,
     agent_execution_log |-> <<>>]

\* What InMemorySessionService.create_session does with an id that is
\* already stored is the library's: it replaces the session or it raises.
CreateExisting == {"replace", "raise"}

\* sessions with id bound to state
Store(id, state) ==
    [k \in DOMAIN sessions \cup {id} |-> IF k = id THEN state ELSE sessions[k]]

\* tool_usage_monitor: the entry appended to the state's tool_usage_log.
\* The arguments of the model are short, so that str(v)[:100] is str(v).
usage_entry(tool_name, agent_name, time, args) ==
    [tool |-> tool_name, agent |-> agent_name, timestamp |-> time, args_summary |-> args]

\* More than RateLimit calls of one agent within RateWindow seconds are refused.
RateLimit == 10

RateWindow == 300

rate_limit_response(agent_name) ==
    [status |-> "error",
     error_message |-> <<"Rate limit exceeded for ", agent_name,
                         ". Please wait before making more requests.">>]

plan_arguments_response ==
    [status |-> "error",
     error_message |-> <<"Research plan requires topic and objectives">>]

\* Variant: every agent's calls counted.
recent_usage_any_agent(log, agent_name, current_time) ==
    {i \in 1..Len(log) : current_time - log[i].timestamp < RateWindow}

\* The places of the log entries of the last RateWindow seconds that are
\* the agent's.
recent_usage(log, agent_name, current_time) ==
    {i \in 1..Len(log) :
        current_time - log[i].timestamp < RateWindow /\ log[i].agent = agent_name}

\* The state after the call and what the callback returns, None (the tool
\* may run) or the response that takes the tool's place.  time is the
\* reading of time.time(), the same at lines 71 and 77.
tool_usage_monitor(state, tool_name, agent_name, args, time) ==
    LET before == IF "tool_usage_log" \in DOMAIN state THEN state["tool_usage_log"] ELSE <<>>
        log == Append(before, usage_entry(tool_name, agent_name, time, args))
    IN  [state |-> [k \in DOMAIN state \cup {"tool_usage_log"} |->
                       IF k = "tool_usage_log" THEN log ELSE state[k]],
         response |->
            IF Cardinality(recent_usage(log, agent_name, time)) > RateLimit
            THEN rate_limit_response(agent_name)
            ELSE IF /\ tool_name = "create_research_plan_tool"
                    /\ \/ ~Truthy(get(args, "topic", PyNone))
                       \/ ~Truthy(get(args, "objectives", PyNone))
                 THEN plan_arguments_response
            ELSE PyNone]

dummy_tool == <<"Tool received message: ", "It works!">>

\* The call the dummy agent is instructed to make.
dummy_args == [message |-> PyStr(<<"It works!">>)]

\* The wall clock does not advance while the runs of the session-based
\* workflow are in flight.
SessionTime == 0

\* An event of runner.run_async: is_final_response() and the texts of
\* content.parts, <<>> for an event without content or parts.
FinalEvents ==
    { [final |-> TRUE, parts |-> p] :
          p \in { <<>>, <<PyStr(<<"Report">>), PyStr(<<"Appendix">>)>> } }

PartialEvents == { [final |-> FALSE, parts |-> <<PyStr(<<"Working on it">>)>>] }

\* The event of a function call: its part has no text.
tool_call_event == [final |-> FALSE, parts |-> <<PyNone>>]

\* Variant: the text of the last part.
final_result_last(event) ==
    IF event.parts = <<>> THEN PyNone ELSE event.parts[Len(event.parts)]

\* final_result after the loop has met the final event.
final_result(event) ==
    IF event.parts = <<>> THEN PyNone ELSE event.parts[1]

RunnerErrors == {<<"model overloaded">>}

SessionRequests ==
    { [topic |-> PyStr(TopicAIMarkets),
       objectives |-> PyList(<<PyStr(ObjectiveAnalyze), PyStr(ObjectiveIdentify)>>),
       questions |-> PyList(<<PyStr(QuestionWhat)>>)],
      [topic |-> PyStr(TopicAIMarkets),
       objectives |-> PyList(<<PyStr(ObjectiveIdentify)>>)],
      [topic |-> PyStr(TopicAIMarkets),
       objectives |-> PyList(<<PyStr(ObjectiveAnalyze)>>),
       questions |-> PyNone],
      [topic |-> PyStr(TopicTooShort), objectives |-> PyList(<<>>)] }

SessionInit ==
    /\ WorkflowUnused
    /\ ValidatorUnused

\* execute_research from its call to the suspension in runner.run_async.
SessionExecuteResearch(r, request, existing) ==
    /\ pc[r] = "idle"
    /\ \A q \in Runs : q < r => pc[q] # "idle"
    /\ req' = [req EXCEPT ![r] = request]
    /\ LET valid == validate_research_request(request)
           id == session_id(request)
       IN  CASE valid = "raise" ->
                    /\ pc' = [pc EXCEPT ![r] = "raised"]
                    /\ UNCHANGED <<calls, result, sessions, now>>
             [] valid = "False" ->
                    /\ pc' = [pc EXCEPT ![r] = "returned"]
                    /\ result' = [result EXCEPT ![r] = invalid_result]
                    /\ UNCHANGED <<calls, sessions, now>>
             [] OTHER ->
                    IF id \in DOMAIN sessions /\ existing = "raise"
                    THEN /\ pc' = [pc EXCEPT ![r] = "raised"]
                         /\ UNCHANGED <<calls, result, sessions, now>>
                    ELSE /\ sessions' = Store(id, initial_state(request, now))
                         /\ now' = now + 1
                         /\ IF build_research_query_raises(request)
                            THEN /\ pc' = [pc EXCEPT ![r] = "raised"]
                                 /\ UNCHANGED calls
                            ELSE /\ pc' = [pc EXCEPT ![r] = "awaiting"]
                                 /\ calls' = [calls EXCEPT
                                                 ![r] = <<build_research_query(request)>>]
                         /\ UNCHANGED result
    /\ UNCHANGED <<outs, apiFailed, faultAt, stub, failures, events>>
    /\ UNCHANGED validatorVars

RECURSIVE EventsTaken(_)
EventsTaken(k) == IF k = 0 THEN 0 ELSE Len(events[k]) + EventsTaken(k - 1)

\* The events taken so far that are no final response.
PendingEvents ==
    EventsTaken(MaxRuns)
        - Cardinality({r \in Runs : events[r] # <<>> /\ events[r][Len(events[r])].final})

\* The runner yields an event that is no final response: the loop goes on.
PartialResponse(r, event) ==
    /\ pc[r] = "awaiting"
    /\ PendingEvents < MaxEvents
    /\ events' = [events EXCEPT ![r] = Append(@, event)]
    /\ UNCHANGED <<workflowVars, validatorVars, sessions>>

\* The agent of run r calls its tool: before_tool_callback writes to the
\* session the runner was given, then the tool runs.
AgentToolCall(r) ==
    /\ pc[r] = "awaiting"
    /\ Len(outs[r]) < MaxToolCalls
    /\ PendingEvents < MaxEvents
    /\ LET id == session_id(req[r])
           monitored == tool_usage_monitor(sessions[id], "dummy_tool", "dummy_agent",
                                           dummy_args, SessionTime)
       IN  /\ sessions' = Store(id, monitored.state)
           /\ outs' = [outs EXCEPT ![r] =
                          Append(@, IF monitored.response = PyNone THEN dummy_tool
                                    ELSE monitored.response.error_message)]
    /\ events' = [events EXCEPT ![r] = Append(@, tool_call_event)]
    /\ UNCHANGED <<pc, req, calls, apiFailed, faultAt, result, stub, failures, now>>
    /\ UNCHANGED validatorVars

\* The final event arrives: the loop breaks, get_session reads the session
\* and execute_research returns.
FinalResponse(r, event) ==
    /\ pc[r] = "awaiting"
    /\ pc' = [pc EXCEPT ![r] = "returned"]
    /\ events' = [events EXCEPT ![r] = Append(@, event)]
    /\ LET id == session_id(req[r])
       IN  result' = [result EXCEPT
                         ![r] = [status |-> "complete",
                                 research_results |-> final_result(event),
                                 session_state |-> sessions[id],
                                 session_id |-> id]]
    /\ UNCHANGED <<req, calls, outs, apiFailed, faultAt, stub, failures, now>>
    /\ UNCHANGED <<validatorVars, sessions>>

\* runner.run_async raises: the except clause returns the error result.
RunnerRaises(r, e) ==
    /\ pc[r] = "awaiting"
    /\ failures < MaxFailures
    /\ failures' = failures + 1
    /\ pc' = [pc EXCEPT ![r] = "returned"]
    /\ result' = [result EXCEPT ![r] = except_result(req[r], e)]
    /\ UNCHANGED <<req, calls, outs, apiFailed, faultAt, stub, now>>
    /\ UNCHANGED <<validatorVars, sessionVars>>

SessionNext ==
    \/ \E r \in Runs, request \in SessionRequests, existing \in CreateExisting :
           SessionExecuteResearch(r, request, existing)
    \/ \E r \in Runs : AgentToolCall(r)
    \/ \E r \in Runs, event \in PartialEvents : PartialResponse(r, event)
    \/ \E r \in Runs, event \in FinalEvents : FinalResponse(r, event)
    \/ \E r \in Runs, e \in RunnerErrors : RunnerRaises(r, e)

SessionSpec == SessionInit /\ [][SessionNext]_vars

(* ---------------------------------------------------------------------- *)
(* Claims about concurrent runs                                            *)
(* ---------------------------------------------------------------------- *)
\* The session state run r reads at its end when no other run is in flight.
AloneState(r) ==
    [k \in {"research_request", "workflow_stage", "agent_execution_log"}
           \cup (IF outs[r] = <<>> THEN {} ELSE {"tool_usage_log"}) |->
        CASE k = "research_request" -> req[r]
          [] k = "workflow_stage" -> "initiated"
          [] k = "agent_execution_log" -> <<>>
          [] OTHER -> [i \in 1..Len(outs[r]) |->
                          usage_entry("dummy_tool", "dummy_agent", SessionTime, dummy_args)]]

\* C19: the result of every run is the one the run has when it runs alone:
\* it raises only where its own request makes it raise, and the session
\* state it returns holds its own request and its own tool calls only
\* (the timestamp left aside), also when another run has the same topic.
C19_RunsIsolated ==
    \A r \in Runs :
        /\ pc[r] = "raised" =>
              \/ validate_research_request(req[r]) = "raise"
              \/ build_research_query_raises(req[r])
        /\ (Returned(r) /\ result[r].status = "complete") =>
              Drop(result[r].session_state, "timestamp") = AloneState(r)

Raised(outcome) == "exc" \in DOMAIN outcome

\* What client.pages.create does.
NotionOutcomes == {"page", "page_without_url", "api_error"}

\* The try block of create_research_page.
create_research_page_try(research_plan, api) ==
    IF research_plan.t # "dict"
    THEN [exc |-> <<"object has no attribute 'get'">>]
    ELSE LET objectives == get(research_plan.d, "objectives", PyNone)
         IN  IF Truthy(objectives) /\ IterRaises(objectives)
             THEN [exc |-> <<"object is not iterable">>]
             ELSE CASE api = "api_error" -> [exc |-> <<"API token is invalid">>]
                    [] api = "page_without_url" -> [exc |-> <<"'url'">>]
                    [] OTHER -> [ret |-> [status |-> "success",
                                          page_id |-> <<"page-1">>,
                                          url |-> <<"https://notion.so/page-1">>]]

\* Variant: no except clause.
create_research_page_uncaught(research_plan, api) ==
    create_research_page_try(research_plan, api)

create_research_page(research_plan, api) ==
    LET tried == create_research_page_try(research_plan, api)
    IN  IF Raised(tried)
        THEN [ret |-> [status |-> "error",
                       error_message |-> <<"Failed to create Notion page: ">> \o tried.exc]]
        ELSE tried

\* What spreadsheets().create, values().update and batchUpdate do.
SheetsCreateOutcomes == {"created", "created_without_id", "http_error"}

SheetsUpdateOutcomes == {"updated", "http_error"}

SheetsFormatOutcomes == {"formatted", "timeout"}

\* _populate_swot_data up to the update: swot_data.get("swot_matrix",
\* {}).get(quadrant, []) and item.get("factor", "") for each item.
populate_reads_raise(swot_data) ==
    IF swot_data.t # "dict" THEN TRUE
    ELSE LET matrix == get(swot_data.d, "swot_matrix", PyDict(<<>>))
         IN  IF matrix.t # "dict" THEN TRUE
             ELSE \E q \in DOMAIN matrix.d \cap Quadrants :
                     \/ matrix.d[q].t # "list"
                     \/ \E i \in 1..Len(matrix.d[q].items) : matrix.d[q].items[i].t # "dict"

\* The try block of create_swot_spreadsheet.
create_swot_spreadsheet_try(swot_data, create, update, fmt) ==
    CASE create = "http_error" -> [exc |-> <<"HttpError 403">>, http |-> TRUE]
      [] create = "created_without_id" -> [exc |-> <<"'spreadsheetId'">>, http |-> FALSE]
      [] populate_reads_raise(swot_data) ->
            [exc |-> <<"object has no attribute 'get'">>, http |-> FALSE]
      [] update = "http_error" -> [exc |-> <<"HttpError 429">>, http |-> TRUE]
      [] fmt = "timeout" -> [exc |-> <<"timed out">>, http |-> FALSE]
      [] OTHER -> [ret |-> [status |-> "success",
                            spreadsheet_id |-> <<"sheet-1">>,
                            spreadsheet_url |->
                                <<"https://docs.google.com/spreadsheets/d/", "sheet-1">>,
                            title |-> <<"SWOT Analysis">>]]

create_swot_spreadsheet(service, swot_data, create, update, fmt) ==
    IF ~service
    THEN [ret |-> [status |-> "error",
                   error_message |-> <<"Google Sheets service not available">>]]
    ELSE LET tried == create_swot_spreadsheet_try(swot_data, create, update, fmt)
         IN  IF Raised(tried)
             THEN [ret |-> [status |-> "error",
                            error_message |->
                                (IF tried.http THEN <<"Google Sheets API error: ">>
                                 ELSE <<"Failed to create spreadsheet: ">>) \o tried.exc]]
             ELSE tried

ResearchPlans ==
    { PyDict([topic |-> PyStr(TopicAIMarkets),
              objectives |-> PyList(<<PyStr(ObjectiveAnalyze)>>)]),
      PyDict([topic |-> PyStr(TopicAIMarkets)]),
      PyDict([topic |-> PyStr(TopicAIMarkets), objectives |-> PyInt(3)]),
      PyDict(<<>>), PyNone, PyStr(TopicAIMarkets) }

SwotItem == PyDict([factor |-> Text, description |-> Text])

SwotData ==
    { PyDict([swot_matrix |-> PyDict([k \in Quadrants |-> PyList(<<SwotItem>>)])]),
      PyDict([swot_matrix |-> PyDict([strengths |-> PyList(<<Text>>)])]),
      PyDict([swot_matrix |-> PyNone]),
      PyDict(<<>>), PyNone }

SinkCalls ==
    { [sink |-> "notion", research_plan |-> pl, api |-> a] :
          pl \in ResearchPlans, a \in NotionOutcomes }
    \cup { [sink |-> "sheets", service |-> sv, swot_data |-> d,
            create |-> c, update |-> u, fmt |-> f] :
              sv \in BOOLEAN, d \in SwotData, c \in SheetsCreateOutcomes,
              u \in SheetsUpdateOutcomes, f \in SheetsFormatOutcomes }

SinkInit ==
    /\ WorkflowUnused
    /\ vin \in SinkCalls
    /\ vout = NoResult

CreateResearchPage ==
    /\ vout = NoResult
    /\ vin.sink = "notion"
    /\ vout' = create_research_page(vin.research_plan, vin.api)
    /\ UNCHANGED <<vin, workflowVars, sessionVars>>

CreateSwotSpreadsheet ==
    /\ vout = NoResult
    /\ vin.sink = "sheets"
    /\ vout' = create_swot_spreadsheet(vin.service, vin.swot_data,
                                       vin.create, vin.update, vin.fmt)
    /\ UNCHANGED <<vin, workflowVars, sessionVars>>

SinkNext == CreateResearchPage \/ CreateSwotSpreadsheet

SinkSpec == SinkInit /\ [][SinkNext]_vars

SinkCalled == vout # NoResult

\* Something inside the sink went wrong: a collaborator failed or the
\* argument is not of the shape the sink reads.
SinkFails ==
    IF vin.sink = "notion"
    THEN \/ vin.api # "page"
         \/ vin.research_plan \in {PyNone, PyStr(TopicAIMarkets)}
         \/ (vin.research_plan.t = "dict"
               /\ "objectives" \in DOMAIN vin.research_plan.d
               /\ vin.research_plan.d["objectives"] = PyInt(3))
    ELSE \/ ~vin.service
         \/ vin.create # "created" \/ vin.update # "updated" \/ vin.fmt # "formatted"
         \/ vin.swot_data = PyNone
         \/ (vin.swot_data.t = "dict" /\ "swot_matrix" \in DOMAIN vin.swot_data.d
               /\ \/ vin.swot_data.d["swot_matrix"] = PyNone
                  \/ vin.swot_data.d["swot_matrix"].d # [k \in Quadrants |-> PyList(<<SwotItem>>)])

\* C21: a call of a sink never raises; when something inside it fails it
\* returns status "error" with an error_message, otherwise status "success".
C21_SinkFailureIsReturned ==
    SinkCalled =>
        /\ ~Raised(vout)
        /\ "ret" \in DOMAIN vout
        /\ IF SinkFails
           THEN vout.ret.status = "error" /\ "error_message" \in DOMAIN vout.ret
           ELSE vout.ret.status = "success"

C21_Witness ==
    /\ SinkCalled
    /\ vin.sink = "sheets" /\ vin.service
    /\ vin.create = "created" /\ vin.update = "http_error"
    /\ vout.ret.status = "error"
    /\ vout.ret.error_message = <<"Google Sheets API error: ", "HttpError 429">>

(* ---------------------------------------------------------------------- *)
(* Claims about the result of a run                                        *)
(* ---------------------------------------------------------------------- *)
\* C22: when the conduct_research call of a run with an accepted request
\* raises (run_in_executor raised, or a prompt could not be built), the run
\* has returned status "error" with the exception's message as error and
\* with the session id of its request.
C22_ResearchExceptionIsErrorResult ==
    \A r \in Runs :
        (/\ Started(r)
         /\ validate_research_request(req[r]) = "True"
         /\ (faultAt[r] # 0 \/ PromptRaises(req[r])))
            => /\ Returned(r)
               /\ result[r].status = "error"
               /\ result[r].error \in
                     (IF faultAt[r] # 0 THEN ExecutorErrors ELSE {JoinTypeError})
               /\ result[r].session_id = session_id(req[r])

C22_Witness ==
    \E r \in Runs :
        /\ ValidRequest(req[r])
        /\ faultAt[r] = 3 /\ Len(outs[r]) = 2
        /\ Returned(r)
        /\ result[r].status = "error"
        /\ result[r].error \in ExecutorErrors

\* C23: the step in which a run of the session-based workflow returns
\* status "complete" is the one that takes the first final-response event:
\* research_results is the text of that event's first part, session_state
\* is the state stored under the run's session id at that moment, and a run
\* that has returned takes no further event.
C23_FirstFinalResponse ==
    [][\A r \in Runs :
          /\ (pc[r] = "awaiting" /\ pc'[r] = "returned"
                /\ result'[r].status = "complete") =>
                LET taken == events'[r]
                    last == taken[Len(taken)]
                IN  /\ Len(taken) = Len(events[r]) + 1
                    /\ last.final
                    /\ \A i \in 1..(Len(taken) - 1) : ~taken[i].final
                    /\ last.parts # <<>> => result'[r].research_results = last.parts[1]
                    /\ result'[r].session_state = sessions'[session_id(req[r])]
          /\ pc[r] = "returned" => events'[r] = events[r]]_vars

C23_Witness ==
    \E r \in Runs :
        /\ Returned(r) /\ result[r].status = "complete"
        /\ Len(events[r]) = 3
        /\ events[r][1].parts = <<PyStr(<<"Working on it">>)>>
        /\ Len(events[r][3].parts) = 2
        /\ result[r].research_results = PyStr(<<"Report">>)
        /\ "tool_usage_log" \in DOMAIN result[r].session_state

\* C24: in every step, the stage outputs a run holds stay as they are; at
\* most one is added, by the stage whose call was pending, under that
\* stage's place; the results of a complete run hold each output under its
\* stage's key.
C24_StageOutputsWriteOnce ==
    [][\A r \in Runs :
          /\ Len(outs'[r]) \in {Len(outs[r]), Len(outs[r]) + 1}
          /\ \A k \in 1..Len(outs[r]) : outs'[r][k] = outs[r][k]
          /\ Len(outs'[r]) = Len(outs[r]) + 1 =>
                (pc[r] = "awaiting" /\ Len(calls[r]) = Len(outs'[r]))
          /\ (pc'[r] = "returned" /\ result'[r].status = "complete") =>
                \A k \in Stages :
                    result'[r].research_results[ResultKeys[k]] = PyStr(outs'[r][k])]_vars

C24_Witness ==
    \E r \in Runs :
        /\ Returned(r) /\ result[r].status = "complete"
        /\ Len(outs[r]) = NumStages
        /\ \A j, k \in Stages : j # k => outs[r][j] # outs[r][k]
        /\ \A k \in Stages : result[r].research_results[ResultKeys[k]] = PyStr(outs[r][k])

(* ---------------------------------------------------------------------- *)
(* _build_research_query called on its own                                 *)
(* ---------------------------------------------------------------------- *)
QuestionWho == <<"W", "h", "o", " ", "l", "e", "a", "d", "s", "?">>

QueryRequests ==
    LET topics == {PyStr(TopicAIMarkets), PyStr(TopicTooShort)}
        objectives == ListsOf({PyStr(ObjectiveAnalyze), PyStr(ObjectiveIdentify)})
        questions == ListsOf({PyStr(QuestionWhat), PyStr(QuestionWho)}) \cup {PyList(<<>>)}
    IN  { [topic |-> t, objectives |-> o] : t \in topics, o \in objectives }
        \cup { [topic |-> t, objectives |-> o, questions |-> q] :
                  t \in topics, o \in objectives, q \in questions }

QueryInit ==
    /\ WorkflowUnused
    /\ vin \in QueryRequests
    /\ vout = NoResult

BuildResearchQuery ==
    /\ vout = NoResult
    /\ vout' = IF build_research_query_raises(vin)
               THEN [exc |-> <<"object is not iterable">>]
               ELSE [ret |-> build_research_query(vin)]
    /\ UNCHANGED <<vin, workflowVars, sessionVars>>

QueryNext == BuildResearchQuery

QuerySpec == QueryInit /\ [][QueryNext]_vars

\* The first place from `from` on where text stands in within, 0 if none.
FirstAt(text, within, from) ==
    LET places == {i \in from..(Len(within) - Len(text) + 1) :
                      \A j \in 1..Len(text) : within[i + j - 1] = text[j]}
    IN  IF places = {} THEN 0 ELSE CHOOSE i \in places : \A j \in places : i <= j

\* The strings of items stand in within one after another, in the order
\* of items, all of them in the places from..to.
RECURSIVE InOrder(_, _, _, _)
InOrder(items, within, from, to) ==
    IF items = <<>> THEN TRUE
    ELSE LET at == FirstAt(items[1].s, within, from)
         IN  /\ at # 0
             /\ at + Len(items[1].s) - 1 <= to
             /\ InOrder(Tail(items), within, at + Len(items[1].s), to)

\* C25: the query holds the topic, then after "Research Objectives:" and
\* before "Specific Research Questions:" every objective in the order of
\* the request, then after that heading every question in the order of the
\* request.
C25_QueryHoldsRequest ==
    (vout # NoResult /\ vin \in QueryRequests) =>
        /\ "ret" \in DOMAIN vout
        /\ LET query == vout.ret
               objectivesAt == FirstAt(<<"Research Objectives:">>, query, 1)
               questionsAt == FirstAt(<<"Specific Research Questions:">>, query, 1)
               questions == get(vin, "questions", PyList(<<>>))
           IN  /\ 0 < objectivesAt /\ objectivesAt < questionsAt
               /\ InOrder(<<vin.topic>>, query, 1, objectivesAt - 1)
               /\ InOrder(vin.objectives.items, query, objectivesAt + 1, questionsAt - 1)
               /\ InOrder(questions.items, query, questionsAt + 1, Len(query))

C25_Witness ==
    /\ vout # NoResult /\ vin \in QueryRequests
    /\ vin.objectives.items = <<PyStr(ObjectiveIdentify), PyStr(ObjectiveAnalyze)>>
    /\ "questions" \in DOMAIN vin
    /\ vin.questions.items = <<PyStr(QuestionWho), PyStr(QuestionWhat)>>
    /\ "ret" \in DOMAIN vout
    /\ FirstAt(ObjectiveIdentify, vout.ret, 1) < FirstAt(ObjectiveAnalyze, vout.ret, 1)

(* ---------------------------------------------------------------------- *)
(* tool_usage_monitor called again and again on one state                  *)
(*                                                                         *)
(* vin is tool_context.state, now the wall clock, vout the calls made so   *)
(* far, each with the agent, the tool, the time and the response.          *)
(* ---------------------------------------------------------------------- *)
MonitorAgents == {"dummy_agent", "research_plan_agent"}

\* A tool with its arguments.
ToolCalls ==
    { [tool |-> "dummy_tool", args |-> dummy_args],
      [tool |-> "create_research_plan_tool",
       args |-> [topic |-> PyStr(TopicAIMarkets),
                 objectives |-> PyList(<<PyStr(ObjectiveAnalyze)>>)]],
      [tool |-> "create_research_plan_tool",
       args |-> [topic |-> PyStr(<<>>),
                 objectives |-> PyList(<<PyStr(ObjectiveAnalyze)>>)]] }

\* Seconds between two calls.
ClockSteps == {0, RateWindow - 1, RateWindow}

IsOdd(agent_name, call, step) ==
    agent_name # "dummy_agent" \/ call.tool # "dummy_tool" \/ step # 0

MonitorInit ==
    /\ WorkflowUnused
    /\ vin = [workflow_stage |-> "initiated"]
    /\ vout = <<>>

MonitorToolCall(agent_name, call, step) ==
    /\ Len(vout) < MaxLog
    /\ IsOdd(agent_name, call, step) =>
          Cardinality({i \in 1..Len(vout) : vout[i].odd}) < MaxOdd
    /\ now' = now + step
    /\ LET monitored == tool_usage_monitor(vin, call.tool, agent_name, call.args, now')
       IN  /\ vin' = monitored.state
           /\ vout' = Append(vout, [agent |-> agent_name, tool |-> call.tool,
                                    time |-> now', response |-> monitored.response,
                                    odd |-> IsOdd(agent_name, call, step)])
    /\ UNCHANGED <<pc, req, calls, outs, apiFailed, faultAt, result, stub, failures>>
    /\ UNCHANGED sessionVars

MonitorNext ==
    \E agent_name \in MonitorAgents, call \in ToolCalls, step \in ClockSteps :
        MonitorToolCall(agent_name, call, step)

MonitorSpec == MonitorInit /\ [][MonitorNext]_vars

\* The calls up to the i-th, itself included, that the agent of the i-th
\* call made less than 300 seconds before it.
SameAgentCalls(i) ==
    {j \in 1..i : vout[j].agent = vout[i].agent /\ vout[i].time - vout[j].time < 300}

RateLimited(i) ==
    /\ "status" \in DOMAIN vout[i].response
    /\ vout[i].response.status = "error"
    /\ vout[i].response.error_message[1] = "Rate limit exceeded for "

Approved(i) == vout[i].response = PyNone

UpperCase ==
    <<"A", "B", "C", "D", "E", "F", "G", "H", "I", "J", "K", "L", "M",
      "N", "O", "P", "Q", "R", "S", "T", "U", "V", "W", "X", "Y", "Z">>

LowerCase ==
    <<"a", "b", "c", "d", "e", "f", "g", "h", "i", "j", "k", "l", "m",
      "n", "o", "p", "q", "r", "s", "t", "u", "v", "w", "x", "y", "z">>

lower(chars) ==
    [i \in 1..Len(chars) |->
        IF \E k \in 1..26 : UpperCase[k] = chars[i]
        THEN LowerCase[CHOOSE k \in 1..26 : UpperCase[k] = chars[i]]
        ELSE chars[i]]

MinMessageLen == 50

required_terms ==
    { <<"o", "b", "j", "e", "c", "t", "i", "v", "e">>,
      <<"q", "u", "e", "s", "t", "i", "o", "n">>,
      <<"a", "n", "a", "l", "y", "s", "i", "s">>,
      <<"r", "e", "s", "e", "a", "r", "c", "h">> }

TooBrief ==
    <<"Research request is too brief. Please provide detailed objectives, specific questions, and context for comprehensive analysis.">>

MissingStructure ==
    <<"Please structure your request with clear research objectives, specific questions, and desired analysis outcomes.">>

LlmResponse(text) == [role |-> "model", parts |-> <<PyStr(text)>>]

\* The places of the contents with role 'user' and with parts.
UserContents(contents) ==
    {i \in 1..Len(contents) : contents[i].role = "user" /\ contents[i].parts # <<>>}

research_quality_guardrail(contents) ==
    LET users == UserContents(contents)
        last_user_message ==
            IF users = {} THEN PyStr(<<>>)
            ELSE contents[CHOOSE i \in users : \A j \in users : j <= i].parts[1]
    IN  IF last_user_message.t # "str" THEN [exc |-> <<"object of type 'NoneType' has no len()">>]
        ELSE IF Len(last_user_message.s) < MinMessageLen THEN [ret |-> LlmResponse(TooBrief)]
        ELSE IF ~\E term \in required_terms : IsSubstring(term, lower(last_user_message.s))
             THEN [ret |-> LlmResponse(MissingStructure)]
        ELSE [ret |-> PyNone]

\* A text of n characters that starts with the given characters.
Message(start, n) == [i \in 1..n |-> IF i <= Len(start) THEN start[i] ELSE "."]

MessageTexts ==
    { PyStr(Message(<<"r", "e", "s", "e", "a", "r", "c", "h">>, n)) : n \in {49, 50} }
    \cup { PyStr(Message(<<"R", "E", "S", "E", "A", "R", "C", "H">>, 50)),
           PyStr(Message(<<"m", "y", " ", "Q", "u", "e", "s", "t", "i", "o", "n">>, 50)),
           PyStr(Message(<<"r", "e", "s", "e", "a", "r", "c">>, 50)),
           PyStr(Message(<<>>, 60)),
           PyStr(<<>>),
           PyNone }

Contents ==
    { [role |-> role, parts |-> parts] :
          role \in {"user", "model"},
          parts \in { <<>> } \cup { <<t>> : t \in MessageTexts }
                            \cup { <<PyStr(<<"h", "i">>), t>> : t \in MessageTexts } }

LlmRequests == UNION { [1..n -> Contents] : n \in 0..MaxContents }

GuardrailInit ==
    /\ WorkflowUnused
    /\ vin \in LlmRequests
    /\ vout = NoResult

ResearchQualityGuardrail ==
    /\ vout = NoResult
    /\ vout' = research_quality_guardrail(vin)
    /\ UNCHANGED <<vin, workflowVars, sessionVars>>

GuardrailNext == ResearchQualityGuardrail

GuardrailSpec == GuardrailInit /\ [][GuardrailNext]_vars

\* The text of the latest user message, <<>> when there is no user
\* message or its first part carries no text.
LatestUserText ==
    LET users == {i \in 1..Len(vin) : vin[i].role = "user" /\ vin[i].parts # <<>>}
    IN  IF users = {} THEN <<>>
        ELSE LET first == vin[CHOOSE i \in users : \A j \in users : j <= i].parts[1]
             IN  IF first.t = "str" THEN first.s ELSE <<>>

Blocks == "ret" \in DOMAIN vout /\ vout.ret # PyNone

Allows == "ret" \in DOMAIN vout /\ vout.ret = PyNone

\* C27: the guardrail returns a blocking response when the latest user
\* message has fewer than 50 characters (none, when there is no such
\* message), otherwise a blocking response when the message holds none of
\* the four terms in any case of letters, otherwise None.
C27_GuardrailDecision ==
    (vout # NoResult /\ vin \in LlmRequests) =>
        LET text == LatestUserText
            named == \E term \in required_terms :
                        \E i \in 0..(Len(text) - Len(term)) :
                            \A j \in 1..Len(term) : lower(text)[i + j] = term[j]
        IN  IF Len(text) < 50 \/ ~named THEN Blocks ELSE Allows

(* ---------------------------------------------------------------------- *)
(* The stage tools                                                         *)
(*                                                                         *)
(* Each tool is the dict it returns.  The literal findings, matrices and   *)
(* recommendations a tool writes out are kept as the keys they sit under,  *)
(* with Text for their content; what a tool computes from its arguments    *)
(* is computed.  timestamp is tool_context.state.get("timestamp").         *)
(* ---------------------------------------------------------------------- *)
PyFloat(digits) == [t |-> "float", s |-> <<digits>>, n |-> 0, items |-> <<>>]

PyTrue == [t |-> "bool", s |-> <<>>, n |-> 1, items |-> <<>>]

\* dict.get(key, default)
dict_get(v, key, default) == IF key \in DOMAIN v.d THEN v.d[key] ELSE default

len(v) == IF v.t = "str" THEN Len(v.s) ELSE Len(v.items)

create_research_plan_tool(topic, objectives, methodology, source_strategy, frameworks) ==
    PyDict([topic |-> topic,
            objectives |-> objectives,
            methodology |-> PyDict([approach |-> methodology,
                                    source_strategy |-> source_strategy,
                                    frameworks |-> frameworks]),
            status |-> PyStr(<<"plan_created">>)])

data_source(source_type, found_key, found, query_count, credibility) ==
    PyDict((found_key :> PyInt(found))
           @@ [source_type |-> PyStr(<<source_type>>),
               query_count |-> PyInt(query_count),
               credibility_score |-> PyFloat(credibility)])

orchestration_results_of(research_plan, timestamp) ==
    LET research_id == dict_get(research_plan, "research_id", PyStr(<<"unknown">>))
        topic == dict_get(research_plan, "topic", PyStr(<<>>))
        questions == dict_get(research_plan, "questions", PyList(<<>>))
    IN  PyDict([research_id |-> research_id,
                topic |-> topic,
                data_sources |-> PyList(<<
                    data_source("academic_journals", "papers_found", 25, len(questions), "0.9"),
                    data_source("industry_reports", "reports_found", 12, len(questions), "0.85"),
                    data_source("government_data", "datasets_found", 8, len(questions), "0.95")>>),
                collection_status |-> PyStr(<<"complete">>),
                total_sources |-> PyInt(45),
                data_quality_score |-> PyFloat("0.88"),
                collection_timestamp |-> timestamp])

coordinate_research_execution_tool(research_plan, timestamp) ==
    PyDict([status |-> PyStr(<<"success">>),
            orchestration_results |-> orchestration_results_of(research_plan, timestamp),
            ready_for_synthesis |-> PyTrue,
            next_phase |-> PyStr(<<"data_synthesis_and_analysis">>)])

RECURSIVE sources_found(_)
sources_found(data_sources) ==
    IF data_sources = <<>> THEN 0
    ELSE LET source == Head(data_sources)
         IN  dict_get(source, "papers_found", PyInt(0)).n
             + dict_get(source, "reports_found", PyInt(0)).n
             + dict_get(source, "datasets_found", PyInt(0)).n
             + sources_found(Tail(data_sources))

synthesis_results_of(orchestration_results, timestamp) ==
    LET research_id == dict_get(orchestration_results, "research_id", PyStr(<<"unknown">>))
        data_sources == dict_get(orchestration_results, "data_sources", PyList(<<>>))
    IN  PyDict([research_id |-> research_id,
                synthesis_metadata |-> PyDict([
                    total_sources_analyzed |-> PyInt(sources_found(data_sources.items)),
                    synthesis_timestamp |-> timestamp,
                    methodology |-> PyStr(<<"thematic_analysis_with_cross_validation">>)]),
                synthesized_findings |-> PyDict([
                    market_size_and_growth |-> Text,
                    competitive_landscape |-> Text,
                    regulatory_environment |-> Text]),
                data_quality_assessment |-> PyDict([
                    overall_quality_score |-> PyFloat("0.88"),
                    source_credibility |-> PyFloat("0.90"),
                    data_recency |-> PyFloat("0.85"),
                    coverage_completeness |-> PyFloat("0.90")]),
                identified_gaps |-> PyList(<<Text, Text, Text>>),
                ready_for_framework_analysis |-> PyTrue])

synthesize_research_data_tool(orchestration_results, research_questions, timestamp) ==
    LET synthesis_results == synthesis_results_of(orchestration_results, timestamp)
    IN  PyDict([status |-> PyStr(<<"success">>),
                synthesis_results |-> synthesis_results,
                next_phase |-> PyStr(<<"framework_analysis">>),
                quality_score |->
                    synthesis_results.d["data_quality_assessment"].d["overall_quality_score"]])

swot_results_of(synthesis_results, topic, timestamp) ==
    LET research_id == dict_get(synthesis_results, "research_id", PyStr(<<"unknown">>))
    IN  PyDict([research_id |-> research_id,
                topic |-> topic,
                analysis_timestamp |-> timestamp,
                swot_matrix |-> PyDict([strengths |-> PyList(<<Text, Text, Text>>),
                                        weaknesses |-> PyList(<<Text, Text>>),
                                        opportunities |-> PyList(<<Text, Text, Text>>),
                                        threats |-> PyList(<<Text, Text, Text>>)]),
                strategic_implications |-> PyList(<<Text, Text, Text, Text>>),
                priority_recommendations |-> PyList(<<Text, Text, Text>>)])

conduct_swot_analysis_tool(synthesis_results, topic, timestamp) ==
    LET swot_results == swot_results_of(synthesis_results, topic, timestamp)
        research_id == swot_results.d["research_id"]
    IN  PyDict([status |-> PyStr(<<"success">>),
                swot_analysis |-> swot_results,
                sheets_integration |-> PyDict([
                    status |-> PyStr(<<"success">>),
                    spreadsheet_id |-> PyStr(<<"swot_analysis_">> \o research_id.s),
                    worksheet_url |->
                        PyStr(<<"https://sheets.google.com/spreadsheet_">> \o research_id.s),
                    last_updated |-> timestamp]),
                next_phase |-> PyStr(<<"report_generation">>)])

final_report_of(research_plan, synthesis_results, swot_analysis, timestamp) ==
    LET research_id == dict_get(research_plan, "research_id", PyStr(<<"unknown">>))
        topic == dict_get(research_plan, "topic", PyStr(<<"Research Analysis">>))
    IN  PyDict([report_metadata |-> PyDict([
                    research_id |-> research_id,
                    title |-> PyStr(<<"Comprehensive Secondary Research Report: ">> \o topic.s),
                    generation_timestamp |-> timestamp,
                    report_version |-> PyStr(<<"1.0">>),
                    total_pages |-> PyInt(45),
                    classification |-> PyStr(<<"Strategic Analysis">>)]),
                executive_summary |-> Text,
                methodology |-> Text,
                key_findings |-> Text,
                swot_analysis_summary |-> PyDict([
                    overall_strategic_position |->
                        PyStr(<<"Favorable with strong opportunities for growth">>)]),
                strategic_recommendations |-> PyDict([
                    immediate_actions |-> PyList(<<Text, Text, Text>>)]),
                appendices |-> PyDict([
                    data_quality_assessment |->
                        dict_get(synthesis_results, "data_quality_assessment", PyDict(<<>>)),
                    methodology_details |->
                        dict_get(research_plan, "methodology", PyDict(<<>>)),
                    swot_detailed_matrix |->
                        dict_get(swot_analysis, "swot_matrix", PyDict(<<>>))])])

generate_comprehensive_report_tool(research_plan, synthesis_results, swot_analysis, timestamp) ==
    LET final_report ==
            final_report_of(research_plan, synthesis_results, swot_analysis, timestamp)
    IN  PyDict([status |-> PyStr(<<"success">>),
                final_report |-> final_report,
                report_summary |-> PyDict([
                    total_pages |-> final_report.d["report_metadata"].d["total_pages"],
                    key_recommendations |->
                        PyInt(len(final_report.d["strategic_recommendations"].d["immediate_actions"])),
                    strategic_position |->
                        final_report.d["swot_analysis_summary"].d["overall_strategic_position"]]),
                deliverables_complete |-> PyTrue])

\* The tool each agent's get_tools returns.
ToolOwner ==
    [create_research_plan_tool |-> "research_plan_agent",
     coordinate_research_execution_tool |-> "orchestration_agent",
     synthesize_research_data_tool |-> "synthesis_agent",
     conduct_swot_analysis_tool |-> "swot_analysis_agent",
     generate_comprehensive_report_tool |-> "report_generation_agent"]

Timestamps == {PyNone, PyInt(0)}

ToolTopics == {PyStr(TopicAIMarkets), PyStr(<<>>)}

ToolLists == {PyList(<<>>), PyList(<<Text>>), PyList(<<Text, Text>>)}

\* Research plans as the tools read them: any of the keys may be absent.
ToolPlans ==
    { PyDict(Merge(Merge(a, b), c)) :
          a \in { <<>>, [research_id |-> PyStr(<<"r1">>)] },
          b \in { <<>>, [topic |-> PyStr(TopicAIMarkets)] },
          c \in { <<>>, [questions |-> PyList(<<Text>>), methodology |-> Text] } }

ToolOrchestrationResults ==
    { PyDict(<<>>) } \cup
    { orchestration_results_of(pl, PyNone) : pl \in ToolPlans }

ToolSynthesisResults ==
    { PyDict(<<>>) } \cup
    { synthesis_results_of(o, PyNone) :
          o \in { orchestration_results_of(pl, PyNone) :
                      pl \in { PyDict(<<>>), PyDict([research_id |-> PyStr(<<"r1">>)]) } } }

ToolSwotAnalyses ==
    { PyDict(<<>>), swot_results_of(PyDict(<<>>), PyStr(TopicAIMarkets), PyNone) }

StageToolCalls ==
    { [tool |-> "create_research_plan_tool", topic |-> tp, objectives |-> o,
       methodology |-> m, source_strategy |-> Text, frameworks |-> f] :
          tp \in ToolTopics, o \in ToolLists, m \in {Text, PyStr(<<>>)},
          f \in {PyList(<<>>), PyList(<<PyStr(<<"SWOT">>)>>)} }
    \cup { [tool |-> "coordinate_research_execution_tool", research_plan |-> pl,
            timestamp |-> ts] : pl \in ToolPlans, ts \in Timestamps }
    \cup { [tool |-> "synthesize_research_data_tool", orchestration_results |-> o,
            research_questions |-> q, timestamp |-> ts] :
              o \in ToolOrchestrationResults, q \in ToolLists, ts \in Timestamps }
    \cup { [tool |-> "conduct_swot_analysis_tool", synthesis_results |-> sy,
            topic |-> tp, timestamp |-> ts] :
              sy \in ToolSynthesisResults, tp \in ToolTopics, ts \in Timestamps }
    \cup { [tool |-> "generate_comprehensive_report_tool", research_plan |-> pl,
            synthesis_results |-> sy, swot_analysis |-> sw, timestamp |-> ts] :
              pl \in ToolPlans, sy \in ToolSynthesisResults,
              sw \in ToolSwotAnalyses, ts \in Timestamps }

ToolInit ==
    /\ WorkflowUnused
    /\ vin \in StageToolCalls
    /\ vout = NoResult

\* The tool returns and its return value is put to validate_agent_output
\* under the name of the agent that owns the tool.
Returns(output) ==
    /\ vout = NoResult
    /\ vout' = [output |-> output,
                accepted |-> validate_agent_output(output, ToolOwner[vin.tool])]
    /\ UNCHANGED <<vin, workflowVars, sessionVars>>

CreateResearchPlanTool ==
    /\ vin.tool = "create_research_plan_tool"
    /\ Returns(create_research_plan_tool(vin.topic, vin.objectives, vin.methodology,
                                         vin.source_strategy, vin.frameworks))

CoordinateResearchExecutionTool ==
    /\ vin.tool = "coordinate_research_execution_tool"
    /\ Returns(coordinate_research_execution_tool(vin.research_plan, vin.timestamp))

SynthesizeResearchDataTool ==
    /\ vin.tool = "synthesize_research_data_tool"
    /\ Returns(synthesize_research_data_tool(vin.orchestration_results,
                                             vin.research_questions, vin.timestamp))

ConductSwotAnalysisTool ==
    /\ vin.tool = "conduct_swot_analysis_tool"
    /\ Returns(conduct_swot_analysis_tool(vin.synthesis_results, vin.topic, vin.timestamp))

GenerateComprehensiveReportTool ==
    /\ vin.tool = "generate_comprehensive_report_tool"
    /\ Returns(generate_comprehensive_report_tool(vin.research_plan, vin.synthesis_results,
                                                  vin.swot_analysis, vin.timestamp))

ToolNext ==
    \/ CreateResearchPlanTool
    \/ CoordinateResearchExecutionTool
    \/ SynthesizeResearchDataTool
    \/ ConductSwotAnalysisTool
    \/ GenerateComprehensiveReportTool

ToolSpec == ToolInit /\ [][ToolNext]_vars

\* C28: the value a stage tool returns is accepted by validate_agent_output
\* under the name of the agent that owns the tool.
C28_ToolOutputsAccepted ==
    (vout # NoResult /\ vin \in StageToolCalls) => vout.accepted = "True"

\* The same, for the four tools other than create_research_plan_tool.
OtherToolsAccepted ==
    (vout # NoResult /\ vin \in StageToolCalls /\ vin.tool # "create_research_plan_tool")
        => vout.accepted = "True"

(* ---------------------------------------------------------------------- *)
(* PerplexityClient.multi_query_research                                   *)
(*                                                                         *)
(* The searches run concurrently under asyncio.gather with                 *)
(* return_exceptions=True, which hands back one value per task in the      *)
(* order of the tasks, whatever the order they finish in: the dict the     *)
(* search returned, or the Exception it raised.                            *)
(* ---------------------------------------------------------------------- *)
PyException(message) == [t |-> "exception", s |-> <<message>>, n |-> 0, items |-> <<>>]

\* The values a search task can end with.
SearchOutcomes ==
    { PyDict([status |-> PyStr(<<"success">>), content |-> Text,
              citations |-> c, usage |-> PyDict(<<>>),
              model |-> PyStr(<<"llama-3.1-sonar-large-128k-online">>)]) :
          c \in {PyList(<<>>), PyList(<<Text>>)} }
    \cup { PyDict([status |-> PyStr(<<"error">>),
                   error_message |-> PyStr(<<"API request failed: 500 - down">>)]),
           PyDict([status |-> PyStr(<<"error">>)]),
           PyException("boom") }

default_focus_areas(queries, focus_areas) ==
    LET given == IF focus_areas = PyNone
                 THEN [i \in 1..Len(queries) |-> PyStr(<<"academic">>)]
                 ELSE focus_areas.items
    IN  IF Len(given) # Len(queries)
        THEN [i \in 1..Len(queries) |-> PyStr(<<"academic">>)]
        ELSE given

\* zip(queries, focus_areas): one task per pair.
tasks(queries, focus_areas) ==
    [i \in 1..Len(default_focus_areas(queries, focus_areas)) |->
        [query |-> queries[i], focus_area |-> default_focus_areas(queries, focus_areas)[i]]]

isinstance_Exception(task_result) == task_result.t = "exception"

is_success(task_result) ==
    ~isinstance_Exception(task_result)
        /\ dict_get(task_result, "status", PyNone) = PyStr(<<"success">>)

\* The places, in the order of the tasks, whose result went to the list of
\* successes (success = TRUE) or to the list of errors; place i of the model
\* is query_index i - 1.
RECURSIVE places(_, _, _)
places(results, i, success) ==
    IF i > Len(results) THEN <<>>
    ELSE (IF is_success(results[i]) = success THEN <<i>> ELSE <<>>)
         \o places(results, i + 1, success)

successful_results_of(results, queries) ==
    LET found == places(results, 1, TRUE)
    IN  [k \in 1..Len(found) |->
            PyDict([query_index |-> PyInt(found[k] - 1),
                    query |-> queries[found[k]],
                    result |-> results[found[k]]])]

error_text(task_result) ==
    IF isinstance_Exception(task_result) THEN PyStr(task_result.s)
    ELSE dict_get(task_result, "error_message", PyStr(<<"Unknown error">>))

\* Variant: only the error results are listed, not the raised exceptions.
errors_of_results_only(results, queries) ==
    LET isResult(i) == ~isinstance_Exception(results[i])
        found == SelectSeq(places(results, 1, FALSE), isResult)
    IN  [k \in 1..Len(found) |->
            PyDict([query_index |-> PyInt(found[k] - 1),
                    query |-> queries[found[k]],
                    error |-> error_text(results[found[k]])])]

errors_of(results, queries) ==
    LET found == places(results, 1, FALSE)
    IN  [k \in 1..Len(found) |->
            PyDict([query_index |-> PyInt(found[k] - 1),
                    query |-> queries[found[k]],
                    error |-> error_text(results[found[k]])])]

RECURSIVE total_citations(_)
total_citations(successful_results) ==
    IF successful_results = <<>> THEN 0
    ELSE len(dict_get(Head(successful_results).d["result"], "citations", PyList(<<>>)))
         + total_citations(Tail(successful_results))

\* results is what gather returned for the tasks.
multi_query_research(queries, focus_areas, results) ==
    LET successful_results == successful_results_of(results, queries)
        errors == errors_of(results, queries)
    IN  [ret |-> PyDict([status |-> PyStr(<<"complete">>),
                         successful_queries |-> PyInt(Len(successful_results)),
                         failed_queries |-> PyInt(Len(errors)),
                         results |-> PyList(successful_results),
                         errors |-> PyList(errors),
                         total_citations |-> PyInt(total_citations(successful_results))])]

QueryTexts == {PyStr(<<"market size">>), PyStr(<<"regulation">>)}

QueryLists == UNION { [1..n -> QueryTexts] : n \in 0..MaxQueries }

FocusAreas ==
    { PyNone, PyList(<<>>), PyList(<<PyStr(<<"industry">>)>>),
      PyList(<<PyStr(<<"academic">>), PyStr(<<"industry">>)>>) }

MultiQueryCalls ==
    { [queries |-> q, focus_areas |-> f, results |-> r] :
          q \in QueryLists, f \in FocusAreas,
          r \in UNION { [1..n -> SearchOutcomes] : n \in 0..MaxQueries } }

MultiQueryInit ==
    /\ WorkflowUnused
    /\ vin \in MultiQueryCalls
    /\ Len(vin.results) = Len(tasks(vin.queries, vin.focus_areas))
    /\ vout = NoResult

MultiQueryResearch ==
    /\ vout = NoResult
    /\ vout' = multi_query_research(vin.queries, vin.focus_areas, vin.results)
    /\ UNCHANGED <<vin, workflowVars, sessionVars>>

MultiQueryNext == MultiQueryResearch

MultiQuerySpec == MultiQueryInit /\ [][MultiQueryNext]_vars

\* The entries of a list of the return value that carry query index i.
IndexCount(list, i) ==
    Cardinality({k \in 1..Len(list.items) : list.items[k].d["query_index"] = PyInt(i)})

CallEnds(r) ==
    \/ CallReturns(r)
    \/ \E e \in ApiErrors : CallApiError(r, e)
    \/ \E e \in ExecutorErrors : ExecutorFault(r, e)

LiveSpec == Init /\ [][Next]_vars /\ \A r \in Runs : WF_vars(CallEnds(r))

\* The run is over and has handed its caller a result.
ReturnedResult(r) == Returned(r) /\ result[r].status \in {"complete", "error"}

\* A run makes at most NumStages generation calls, and none once it is over.
BoundedCalls ==
    /\ []( \A r \in Runs : Len(calls[r]) <= 5 )
    /\ [][ \A r \in Runs : pc[r] \in {"returned", "raised"} =>
                                pc'[r] = pc[r] /\ calls'[r] = calls[r] ]_vars

\* C30: every run that was started eventually returns a result with status
\* "complete" or "error"; it makes at most five generation calls, and no
\* generation call after it has returned.
C30_EveryRunTerminates ==
    /\ \A r \in Runs : Started(r) ~> ReturnedResult(r)
    /\ BoundedCalls

\* The same for the runs whose validator does not raise: they return a
\* result; and every run makes at most five calls and none once it is over.
TerminatesUnlessValidatorRaises ==
    /\ \A r \in Runs : (Started(r) /\ pc[r] # "raised") ~> ReturnedResult(r)
    /\ \A r \in Runs : Started(r) ~> (pc[r] \in {"returned", "raised"})
    /\ BoundedCalls

====
